---- MODULE Spec2Model ----
(***************************************************************************)
(* Webcamoid: the NDK MediaCodec video encoder element                     *)
(* (VideoEncoderNDKMediaElement) and the recording orchestrator            *)
(* (Recording), as state machines over a mock hardware codec provider.     *)
(***************************************************************************)
EXTENDS Integers, Sequences, FiniteSets, TLC

(***************************************************************************)
(* Bounds of the model.                                                    *)
(***************************************************************************)
\* hardware codec handles the provider hands out before it refuses (returns null)
MaxHandles == 2
\* output buffers the hardware may hold pending at once
MaxPending == 1
\* largest presentation timestamp of a submitted frame
MaxPts == 1
\* frames the fps control may hand to encodeFrame for one input frame
MaxFill == 1
\* frames one recording's tally goes up to
MaxFrames == 2
\* test encoders created for one MIME type before no more elements are built
MaxProbes == 2
\* largest frame width, in pixels
MaxWidth == 4
\* largest frame height, in rows
MaxHeight == 3

(***************************************************************************)
(* Program constants.                                                      *)
(***************************************************************************)
ElementStateNull == "Null"
ElementStatePaused == "Paused"
ElementStatePlaying == "Playing"
ElementState == {ElementStateNull, ElementStatePaused, ElementStatePlaying}

\* nullptr for a codec handle, a format object or a child element
NULL == 0

Min(a, b) == IF a < b THEN a ELSE b

\* NDKMediaCodecs::table(): name -> MIME type; the sentinel entry has the
\* empty MIME type and is what byName returns for an unknown name.
NDKMediaCodecsTable ==
    << [name |-> "vp8",  mimeType |-> "video/x-vnd.on2.vp8",
        codecID |-> "amvp8", description |-> "VP8"],
       [name |-> "vp9",  mimeType |-> "video/x-vnd.on2.vp9",
        codecID |-> "amvp9", description |-> "VP9"],
       [name |-> "av1",  mimeType |-> "video/av01",
        codecID |-> "amav1", description |-> "AV1"],
       [name |-> "h264", mimeType |-> "video/avc",
        codecID |-> "amh264", description |-> "H264"],
       [name |-> "hevc", mimeType |-> "video/hevc",
        codecID |-> "amhevc", description |-> "HEVC"] >>

\* AkCompressedVideoCaps::VideoCodecID_unknown
VideoCodecID_unknown == "unknown"

byName(name) ==
    IF \E i \in 1..Len(NDKMediaCodecsTable): NDKMediaCodecsTable[i].name = name
    THEN NDKMediaCodecsTable[CHOOSE i \in 1..Len(NDKMediaCodecsTable):
                                 /\ NDKMediaCodecsTable[i].name = name
                                 /\ \A j \in 1..(i - 1): NDKMediaCodecsTable[j].name # name]
    ELSE [name |-> "", mimeType |-> "", codecID |-> VideoCodecID_unknown,
          description |-> ""]

\* codec names a caller sets on the element: a table entry and an unknown name
CodecChoices == {"vp8", "nocodec"}

VARIABLES
    enc,     \* the encoder element: AkElement state and the private fields
    hw,      \* the hardware codec provider (mock): handles, formats, buffers
    last,    \* what the most recent handler did: calls made, packets emitted
    pcP,     \* producer thread position inside iVideoStream
    pcC,     \* controller thread position inside setState/init/uninit
    mutex,   \* owner of m_mutex: "none", "P" or "C"
    rec,     \* the recording orchestrator (RecordingPrivate fields)
    mux,     \* the muxer child
    aenc,    \* the audio encoder child
    hist,    \* history of the current recording and of the children used
    sess,    \* history of the encoder's current session: frames in, packets out
    cat,     \* the codec catalog: the hardware's offer, the memo of isAvailable,
             \* m_codecs of the element built last
    calc     \* a computation on its own: its inputs, which one ran, its result

vars == <<enc, hw, last, pcP, pcC, mutex, rec, mux, aenc, hist, sess, cat, calc>>
threadVars == <<pcP, pcC, mutex>>
recVars == <<rec, mux, aenc, hist>>


(***************************************************************************)
(* The hardware codec provider (AMediaCodec / AMediaFormat), as a mock.    *)
(* A handle is a number 1..MaxHandles; `live` are the handles created and  *)
(* not deleted, `started` those between start and stop. `pending` are the  *)
(* output buffers the hardware will deliver, in order; `unreleased` counts *)
(* the output buffers dequeued from the current handle and not released.   *)
(***************************************************************************)
BufferKinds == {"config", "data", "eos"}

\* `stamps` tells the kind of provider: one that hands the presentation
\* time of an input buffer on to the output buffer made from it, or one
\* that reports 0 for every output buffer.
HwInit ==
    [created |-> 0, live |-> {}, started |-> {}, pending |-> <<>>,
     unreleased |-> 0, fmtCreated |-> 0, fmtLive |-> {}, stamps |-> FALSE]

Call(f, c) == [f |-> f, h |-> c]

\* AMediaCodec_createEncoderByType: a fresh handle, or nullptr
AMediaCodec_createEncoderByType(h, ok) ==
    IF ok /\ h.created < MaxHandles
    THEN [hw |-> [h EXCEPT !.created = @ + 1, !.live = @ \cup {h.created + 1}],
          codec |-> h.created + 1]
    ELSE [hw |-> h, codec |-> NULL]

\* AMediaCodec_delete: the handle and everything it holds are gone
AMediaCodec_delete(h, c) ==
    [h EXCEPT !.live = @ \ {c}, !.started = @ \ {c},
              !.pending = <<>>, !.unreleased = 0]

\* AMediaFormat_new: a fresh format object
AMediaFormat_new(h) ==
    [hw |-> [h EXCEPT !.fmtCreated = @ + 1, !.fmtLive = @ \cup {h.fmtCreated + 1}],
     format |-> h.fmtCreated + 1]

\* the QSharedPointer deleter: AMediaFormat_delete when the last reference goes
AMediaFormat_release(h, f) ==
    IF f = NULL THEN h ELSE [h EXCEPT !.fmtLive = @ \ {f}]

(***************************************************************************)
(* AkElement::setState of the base class: stores the state.                *)
(***************************************************************************)
AkElement_setState(e, state) ==
    IF e.state = state
    THEN [enc |-> e, ret |-> FALSE]
    ELSE [enc |-> [e EXCEPT !.state = state], ret |-> TRUE]

(***************************************************************************)
(* VideoEncoderNDKMediaElementPrivate::sendFrame: one output buffer to one *)
(* compressed packet on oStream.                                           *)
(***************************************************************************)
\* AkFrac
Frac(num, den) == [num |-> num, den |-> den]

\* a rounding that cuts the fraction off
qRound64_Truncates(num, den) == num \div den

\* qRound64 of the non-negative quotient num / den
qRound64(num, den) ==
    (num \div den) + (IF 2 * (num % den) >= den THEN 1 ELSE 0)

\* frames per second of the caps in use; the fps control stamps the frames
\* it lets through in ticks of 1/Fps
Fps == 30

\* encodeFrame: qRound64(1e6 * src.pts() * src.timeBase().value())
PresentationTimeUs(src) ==
    qRound64(1000000 * src.pts * src.timeBase.num, src.timeBase.den)

\* m_outputCaps.rawCaps().fps(): the frame rate the caps were made with, which
\* is Fps / 1 where the caps do not say
OutputFps(caps) ==
    IF "fps" \in DOMAIN caps THEN caps.fps ELSE Frac(Fps, 1)

\* a time stamp that stays in microseconds
PacketPts_Microseconds(info, fps) == info.presentationTimeUs

\* sendFrame: qRound64(info.presentationTimeUs * fps.value() / 1e6)
PacketPts(info, fps) ==
    qRound64(info.presentationTimeUs * fps.num, 1000000 * fps.den)

\* fps.invert()
Invert(fps) == Frac(fps.den, fps.num)

sendFrame(e, info) ==
    [caps |-> e.m_outputCaps, kind |-> info.kind,
     pts |-> PacketPts(info, OutputFps(e.m_outputCaps)),
     dts |-> PacketPts(info, OutputFps(e.m_outputCaps)),
     duration |-> 1,
     timeBase |-> Invert(OutputFps(e.m_outputCaps))]

(***************************************************************************)
(* The output drain loops of encodeFrame (forever) and uninit (while       *)
(* !eos). `k` is the number of dequeues the hardware answers before one    *)
(* times out (bufferIndex < 0).                                            *)
(***************************************************************************)
\* number of buffers the loop dequeues successfully
DrainTaken(pending, k, stopAtEos) ==
    LET n == Min(k, Len(pending)) IN
    IF stopAtEos /\ \E i \in 1..n: pending[i].kind = "eos"
    THEN CHOOSE i \in 1..n: /\ pending[i].kind = "eos"
                            /\ \A j \in 1..(i - 1): pending[j].kind # "eos"
    ELSE n

\* after t buffers the loop leaves through `break` (a dequeue timed out),
\* not through eos
DrainTimedOut(pending, t, stopAtEos) ==
    ~(stopAtEos /\ t > 0 /\ pending[t].kind = "eos")

\* a drain loop that also passes over the end-of-stream buffer
SkipsBuffer_AlsoEos(info) == info.kind \in {"config", "eos"}

\* a codec-config buffer makes the loop `continue`
SkipsBuffer(info) == info.kind = "config"

\* AMediaCodec_dequeueOutputBuffer on the handle c and what it returned: the
\* kind of the buffer (info.flags), or "none" for bufferIndex < 0
Dequeued(c, got) == [f |-> "dequeueOutputBuffer", h |-> c, got |-> got]

\* AMediaCodec_dequeueInputBuffer on the handle c and whether it returned a
\* buffer (bufferIndex >= 0)
DequeuedInput(c, got) == [f |-> "dequeueInputBuffer", h |-> c, got |-> got]

RECURSIVE DrainCalls(_, _)
DrainCalls(bufs, c) ==
    IF bufs = <<>> THEN <<>>
    ELSE (IF SkipsBuffer(Head(bufs))
          THEN << Dequeued(c, Head(bufs).kind) >>
          ELSE << Dequeued(c, Head(bufs).kind), Call("getOutputBuffer", c),
                  Call("releaseOutputBuffer", c) >>)
         \o DrainCalls(Tail(bufs), c)

RECURSIVE DrainPackets(_, _)
DrainPackets(e, bufs) ==
    IF bufs = <<>> THEN <<>>
    ELSE (IF SkipsBuffer(Head(bufs)) THEN <<>> ELSE << sendFrame(e, Head(bufs)) >>)
         \o DrainPackets(e, Tail(bufs))

RECURSIVE SkippedCount(_)
SkippedCount(bufs) ==
    IF bufs = <<>> THEN 0
    ELSE (IF SkipsBuffer(Head(bufs)) THEN 1 ELSE 0) + SkippedCount(Tail(bufs))

\* the loop's effect once it has dequeued the first t pending buffers
DrainFirst(e, h, t, stopAtEos) ==
    LET taken == SubSeq(h.pending, 1, t) IN
    [hw    |-> [h EXCEPT !.pending = SubSeq(h.pending, t + 1, Len(h.pending)),
                         !.unreleased = @ + SkippedCount(taken)],
     calls |-> DrainCalls(taken, e.m_codec)
               \o (IF DrainTimedOut(h.pending, t, stopAtEos)
                   THEN << Dequeued(e.m_codec, "none") >> ELSE <<>>),
     out   |-> DrainPackets(e, taken)]

Drain(e, h, k, stopAtEos) ==
    DrainFirst(e, h, DrainTaken(h.pending, k, stopAtEos), stopAtEos)

(***************************************************************************)
(* The encoder element. `enc` holds AkElement's state, the properties of   *)
(* AkVideoEncoder that init() reads (inputCaps, codec) and the fields of   *)
(* VideoEncoderNDKMediaElementPrivate. m_headers holds the bytes of the    *)
(* format object's address, here the identity of the format object.        *)
(* m_id and m_index only label packets and are left out.                   *)
(***************************************************************************)
NoCaps == "none"
InputCapsChoices == {NoCaps, "capsA"}

\* what a handler did besides changing enc and hw: the hardware calls it
\* made, the packets it emitted on oStream, the other signals it emitted and
\* the message it logged with qCritical
NoEffect(e, h) ==
    [enc |-> e, hw |-> h, calls |-> <<>>, out |-> <<>>, sig |-> <<>>, log |-> ""]

Signal(name, value) == [s |-> name, v |-> value]

\* dequeueInputBuffer answers within the timeout: the hardware is willing
\* and has a free slot
InputBufferAvailable(h, willing) == willing /\ Len(h.pending) < MaxPending

\* the output caps of an element without valid input caps or known codec
NoOutputCaps == [codec |-> "", caps |-> NoCaps]

\* the caps m_videoConverter produces for the input caps: the pixel format
\* is replaced by a supported one and a missing frame rate by 30/1, so
\* "capsA0" (capsA without a frame rate) gives the caps that "capsA" gives
ConvertedCaps(caps) == IF caps = "capsA0" THEN "capsA" ELSE caps

\* updateOutputCaps, the caps it arrives at: the codec is looked up in the
\* live catalog, here the whole static table (the hardware offers every MIME
\* type)
RecomputedOutputCaps(e) ==
    IF e.inputCaps = NoCaps \/ byName(e.codec).mimeType = ""
    THEN NoOutputCaps
    ELSE [codec |-> e.codec, caps |-> ConvertedCaps(e.inputCaps)]

CapsDiffer_Always(stored, outputCaps) == TRUE

\* the comparison every path of updateOutputCaps makes before it stores
CapsDiffer(stored, outputCaps) == stored # outputCaps

updateOutputCaps(e) ==
    LET outputCaps == RecomputedOutputCaps(e) IN
    IF CapsDiffer(e.m_outputCaps, outputCaps)
    THEN [enc |-> [e EXCEPT !.m_outputCaps = outputCaps],
          sig |-> << Signal("outputCapsChanged", outputCaps) >>]
    ELSE [enc |-> e, sig |-> <<>>]

\* m_videoConverter's output caps after updateOutputCaps: set on the path
\* that builds caps, before the comparison, and left alone on the others
setOutputCaps(e, converter) ==
    IF RecomputedOutputCaps(e) = NoOutputCaps THEN converter
    ELSE ConvertedCaps(e.inputCaps)

\* AkVideoEncoder::setInputCaps: inputCapsChanged runs updateOutputCaps
setInputCaps(e, caps) ==
    IF e.inputCaps = caps THEN [enc |-> e, sig |-> <<>>]
    ELSE updateOutputCaps([e EXCEPT !.inputCaps = caps])

updateHeaders(e) ==
    LET headers == e.m_mediaFormat IN
    IF e.m_headers = headers
    THEN [enc |-> e, sig |-> <<>>]
    ELSE [enc |-> [e EXCEPT !.m_headers = headers],
          sig |-> << Signal("headersChanged", headers) >>]

\* uninit's early return
UninitSkips(e) == ~e.m_initialized

\* uninit: the end-of-stream marker on the next input buffer, if one comes
queueEndOfStream(e, h, env) ==
    IF InputBufferAvailable(h, env.inputAvail)
    THEN [hw    |-> [h EXCEPT !.pending = Append(@, [kind |-> "eos", presentationTimeUs |-> 0])],
          calls |-> << DequeuedInput(e.m_codec, TRUE),
                       Call("queueInputBuffer:EOS", e.m_codec) >>]
    ELSE [hw |-> h, calls |-> << DequeuedInput(e.m_codec, FALSE) >>]

\* uninit after its drain d: stop, release the format, delete the handle
stopAndDelete(e, calls, d) ==
    [enc   |-> [e EXCEPT !.m_initialized = FALSE, !.m_mediaFormat = NULL,
                         !.m_codec = NULL, !.m_paused = FALSE],
     hw    |-> AMediaCodec_delete(
                   AMediaFormat_release([d.hw EXCEPT !.started = @ \ {e.m_codec}],
                                        e.m_mediaFormat),
                   e.m_codec),
     calls |-> calls \o d.calls
               \o << Call("stop", e.m_codec), Call("delete", e.m_codec) >>,
     out   |-> d.out,
     sig   |-> <<>>,
     log   |-> ""]

\* uninit with a codec handle, after the end-of-stream step q
drainAndStop(e, q, env) ==
    stopAndDelete(e, q.calls, Drain(e, q.hw, env.k, TRUE))

\* uninit past its early return
teardown(e, h, env) ==
    IF e.m_codec = NULL
    THEN [NoEffect([e EXCEPT !.m_initialized = FALSE, !.m_mediaFormat = NULL,
                             !.m_paused = FALSE],
                   AMediaFormat_release(h, e.m_mediaFormat))
          EXCEPT !.log = ""]
    ELSE drainAndStop(e, queueEndOfStream(e, h, env), env)

\* the stop left no record of having run: the deleted handle stays in m_codec
keepsHandle(r, e) == [r EXCEPT !.enc.m_codec = e.m_codec]

\* a stop with no early return that leaves the deleted handle in m_codec
uninit_DoubleFree(e, h, env) == keepsHandle(teardown(e, h, env), e)

uninit(e, h, env) ==
    IF UninitSkips(e) THEN NoEffect(e, h) ELSE teardown(e, h, env)

\* a failing return of init(), after its uninit u
initFailed(u, e, h, calls, msg) ==
    [enc |-> e, hw |-> h, ret |-> FALSE, calls |-> u.calls \o calls,
     out |-> u.out, sig |-> <<>>, log |-> msg]

\* init() once the hardware has started: headers, fps control restart
initStarted(u, c, uh, h, env) ==
    [enc   |-> [uh.enc EXCEPT !.m_encodedTimePts = 0, !.m_initialized = TRUE],
     hw    |-> [h EXCEPT !.started = @ \cup {c},
                         !.pending = IF env.configFirst
                                     THEN << [kind |-> "config", presentationTimeUs |-> 0] >> ELSE <<>>],
     ret   |-> TRUE,
     calls |-> u.calls \o << Call("createEncoderByType", c), Call("configure", c),
                             Call("start", c) >>,
     out   |-> u.out,
     sig   |-> uh.sig,
     log   |-> ""]

\* init() with the handle c and the new format fm: configure and start. A
\* failed configure or start returns with the handle still in m_codec.
initConfigure(u, c, fm, env) ==
    LET e2 == [u.enc EXCEPT !.m_codec = c, !.m_mediaFormat = fm.format]
        h1 == AMediaFormat_release(fm.hw, u.enc.m_mediaFormat)
    IN
    IF ~env.configureOk
    THEN initFailed(u, e2, h1,
                    << Call("createEncoderByType", c), Call("configure", c) >>,
                    "Encoder configuration failed")
    ELSE IF ~env.startOk
    THEN initFailed(u, e2, h1,
                    << Call("createEncoderByType", c), Call("configure", c),
                       Call("start", c) >>,
                    "Failed to start the encoding")
    ELSE initStarted(u, c, updateHeaders(e2), h1, env)

\* init() after AMediaCodec_createEncoderByType answered cr
initCreated(u, cr, env) ==
    IF cr.codec = NULL
    THEN initFailed(u, [u.enc EXCEPT !.m_codec = NULL], cr.hw,
                    << Call("createEncoderByType", NULL) >>, "Encoder not found")
    ELSE initConfigure(u, cr.codec, AMediaFormat_new(cr.hw), env)

\* init() after its uninit u
initChecked(u, env) ==
    IF u.enc.inputCaps = NoCaps
    THEN initFailed(u, u.enc, u.hw, <<>>, "Invalid input format.")
    ELSE IF byName(u.enc.codec).mimeType = ""
    THEN initFailed(u, u.enc, u.hw, <<>>, "Mimetype not found")
    ELSE initCreated(u, AMediaCodec_createEncoderByType(u.hw, env.createOk), env)

init(e, h, env) == initChecked(uninit(e, h, env.uninit), env)

\* a frame whose drain gave no packet leaves the counter alone
frameDone_OnlyWithOutput(e, src, calls, d) ==
    [enc   |-> IF d.out = <<>> THEN e
               ELSE [e EXCEPT !.m_encodedTimePts = src.pts + src.duration],
     hw    |-> d.hw,
     calls |-> calls \o d.calls,
     out   |-> d.out,
     sig   |-> IF d.out = <<>> THEN <<>>
               ELSE << Signal("encodedTimePtsChanged", src.pts + src.duration) >>,
     log   |-> ""]

\* encodeFrame after its drain d
frameDone(e, src, calls, d) ==
    [enc   |-> [e EXCEPT !.m_encodedTimePts = src.pts + src.duration],
     hw    |-> d.hw,
     calls |-> calls \o d.calls,
     out   |-> d.out,
     sig   |-> << Signal("encodedTimePtsChanged", src.pts + src.duration) >>,
     log   |-> ""]

\* the output buffer the hardware makes from the frame src queued with
\* AMediaCodec_queueInputBuffer(..., presentationTimeUs, 0)
OutputBuffer(h, src) ==
    [kind |-> "data",
     presentationTimeUs |-> IF h.stamps THEN PresentationTimeUs(src) ELSE 0]

\* AMediaCodec_queueInputBuffer(codec, index, 0, size, presentationTimeUs, 0)
Queued(c, presentationTimeUs) ==
    [f |-> "queueInputBuffer", h |-> c, presentationTimeUs |-> presentationTimeUs]

\* a frame without an input buffer that also skips the output drain
dropFrame_NoDrain(e, h, src, env) ==
    frameDone(e, src, << DequeuedInput(e.m_codec, FALSE) >>,
              [hw |-> h, calls |-> <<>>, out |-> <<>>])

\* encodeFrame when dequeueInputBuffer returned no buffer: nothing is
\* written or queued, the drain loop follows
dropFrame(e, h, src, env) ==
    frameDone(e, src, << DequeuedInput(e.m_codec, FALSE) >>,
              Drain(e, h, env.k, FALSE))

encodeFrame(e, h, src, env) ==
    IF InputBufferAvailable(h, env.inputAvail)
    THEN frameDone(e, src,
                   << DequeuedInput(e.m_codec, TRUE),
                      Call("getInputBuffer", e.m_codec),
                      Queued(e.m_codec, PresentationTimeUs(src)) >>,
                   Drain(e, [h EXCEPT !.pending = Append(@, OutputBuffer(h, src))],
                         env.k, FALSE))
    ELSE dropFrame(e, h, src, env)

\* two effects in sequence
andThen(r, rest) ==
    [enc |-> rest.enc, hw |-> rest.hw, calls |-> r.calls \o rest.calls,
     out |-> r.out \o rest.out, sig |-> r.sig \o rest.sig, log |-> ""]

\* the fps control's oStream: encodeFrame for each frame it lets through
RECURSIVE encodeFrames(_, _, _)
RECURSIVE encodeRest(_, _)
encodeRest(r, frames) == andThen(r, encodeFrames(r.enc, r.hw, frames))

encodeFrames(e, h, frames) ==
    IF frames = <<>> THEN NoEffect(e, h)
    ELSE encodeRest(encodeFrame(e, h, Head(frames).src, Head(frames)), Tail(frames))

\* a test that lets frames through to a session that is not initialised
StreamSkips_Uninitialised(e) == e.m_paused \/ ~e.m_fpsControl

\* a test that lets frames through to a paused session
StreamSkips_WhilePaused(e) == ~e.m_initialized \/ ~e.m_fpsControl

\* iVideoStream's first test, under the mutex
StreamSkips(e) == e.m_paused \/ ~e.m_initialized \/ ~e.m_fpsControl

iVideoStream(e, h, env) ==
    IF StreamSkips(e) THEN NoEffect(e, h)
    ELSE IF env.discard THEN NoEffect(e, h)
    ELSE IF ~env.converted THEN NoEffect(e, h)
    ELSE encodeFrames(e, h, env.frames)

\* a failed start that leaves the pause flag as the request set it
startFailed_KeepsPaused(r) == r

\* setState's branch for init() returning false
startFailed(r) == [r EXCEPT !.enc.m_paused = FALSE]

\* setState's `return AkElement::setState(state)` after the effect r
baseSetState(r, b) == [ret |-> b.ret] @@ [r EXCEPT !.enc = b.enc]

thenBase(r, state) == baseSetState(r, AkElement_setState(r.enc, state))

\* setState from Null to Paused or Playing, after init() returned r
started(r, state) == IF ~r.ret THEN startFailed(r) ELSE thenBase(r, state)

setState(e, h, state, env) ==
    CASE e.state = ElementStateNull /\ state = ElementStatePaused ->
            started(init([e EXCEPT !.m_paused = TRUE], h, env.init), state)
      [] e.state = ElementStateNull /\ state = ElementStatePlaying ->
            started(init(e, h, env.init), state)
      [] e.state = ElementStatePaused /\ state = ElementStateNull ->
            thenBase(uninit(e, h, env.uninit), state)
      [] e.state = ElementStatePaused /\ state = ElementStatePlaying ->
            thenBase(NoEffect([e EXCEPT !.m_paused = FALSE], h), state)
      [] e.state = ElementStatePlaying /\ state = ElementStateNull ->
            thenBase(uninit(e, h, env.uninit), state)
      [] e.state = ElementStatePlaying /\ state = ElementStatePaused ->
            thenBase(NoEffect([e EXCEPT !.m_paused = TRUE], h), state)
      [] OTHER -> [ret |-> FALSE] @@ NoEffect(e, h)

(***************************************************************************)
(* The encoder element alone, one handler per step (Spec).                 *)
(***************************************************************************)
EncInit(fps) ==
    [state |-> ElementStateNull, inputCaps |-> NoCaps, codec |-> "vp8",
     m_outputCaps |-> NoOutputCaps, m_headers |-> NULL, m_codec |-> NULL,
     m_mediaFormat |-> NULL, m_initialized |-> FALSE, m_paused |-> FALSE,
     m_encodedTimePts |-> 0, m_fpsControl |-> fps, alive |-> TRUE]

\* the most recent handler: its name and argument, the state it found (kept
\* for setState only), what it returned and what it did
\* What is remembered while a recording runs: whether the video encoder's
\* oStream is linked to the muxer held now and, where a tally is kept (on),
\* whether the video encoder has emitted a packet since the start and the
\* durations of the frames it was given to encode since the start, added
\* up. Between recordings, where a tally is kept: which of the children
\* held now took part in the recording that ended.
NoHistory ==
    [on |-> FALSE, vLinked |-> FALSE, vPackets |-> FALSE, vFrames |-> 0,
     used |-> {}]

NoLast == [op |-> "new", arg |-> "", ret |-> FALSE, calls |-> <<>>, out |-> <<>>,
           sig |-> <<>>, log |-> "", before |-> ElementStateNull, trace |-> <<>>,
           prevStop |-> FALSE, hist |-> NoHistory]

Done(op, arg, r, ret, before) ==
    [op |-> op, arg |-> arg, ret |-> ret, calls |-> r.calls, out |-> r.out,
     sig |-> r.sig, log |-> r.log, before |-> before, trace |-> <<>>,
     prevStop |-> FALSE, hist |-> NoHistory]

\* a handler that stops the element: setState(Null) or the destructor
IsStop(l) == (l.op = "setState" /\ l.arg = ElementStateNull) \/ l.op = "destroy"

\* a stop also records whether the handler before it was a stop
StopDone(op, arg, r, ret, before) ==
    [Done(op, arg, r, ret, before) EXCEPT !.prevStop = IsStop(last)]

\* the parts of the state the other specifications own
IdleThreads ==
    pcP = "idle" /\ pcC = "idle" /\ mutex = "none"

\* What is remembered of a session of the encoder: the pts of the frame last
\* given to encodeFrame and of the packet last emitted (-1: none yet),
\* whether the frames came with strictly increasing pts, and whether the
\* packets' pts never went down.
NoSession == [fed |-> -1, emitted |-> -1, increasing |-> TRUE, ordered |-> TRUE]

\* no computation is looked at on its own
NoCalc == [done |-> "none"]

\* the MIME types of the static table
MimeTypes == {NDKMediaCodecsTable[i].mimeType : i \in DOMAIN NDKMediaCodecsTable}

\* The catalog at process start on a hardware that offers every MIME type:
\* the static memo of isAvailable is empty (ndkmediaVideoEncAvailableCodecsSize
\* = 0), no probe has run, no element has been built. `probes` counts the
\* test encoders created for a MIME type and `first` keeps the first answer.
NoCatalog ==
    [avail |-> [m \in MimeTypes |-> TRUE], memo |-> <<>>,
     probes |-> [m \in MimeTypes |-> 0], first |-> [m \in MimeTypes |-> "none"],
     m_codecs |-> <<>>, built |-> FALSE]
\* RecordingPrivate after loadConfigs: each child is there or not, as the
\* configured plugins could be created or not
RecordingNew(muxer, videoEncoder, audioEncoder) ==
    [m_state |-> ElementStateNull, m_pause |-> FALSE, m_isRecording |-> FALSE,
     m_muxer |-> muxer, m_videoEncoder |-> videoEncoder,
     m_audioEncoder |-> audioEncoder, m_recordAudio |-> TRUE,
     m_videoCaps |-> "capsA", crashed |-> FALSE]

\* a muxer as created
MuxerNew == [state |-> ElementStateNull]

\* an audio encoder as created
AudioEncoderNew == [state |-> ElementStateNull]

\* the place of a video encoder that was not created
NoEncoder == [EncInit(FALSE) EXCEPT !.alive = FALSE]

IdleRecording ==
    /\ rec = RecordingNew(FALSE, FALSE, FALSE)
    /\ mux = MuxerNew
    /\ aenc = AudioEncoderNew
    /\ hist = NoHistory

Init ==
    /\ \E fps \in BOOLEAN: enc = EncInit(fps)
    /\ hw = HwInit
    /\ last = NoLast
    /\ sess = NoSession
    /\ cat = NoCatalog
    /\ calc = NoCalc
    /\ IdleThreads
    /\ IdleRecording

(***************************************************************************)
(* What the environment decides during a handler: the hardware's answers   *)
(* and the fps control's output. Only the answers the handler can tell     *)
(* apart in the current state are enumerated.                              *)
(***************************************************************************)
\* frames as the fps control stamps them: one tick long
Frames == [pts: 0..MaxPts, duration: {1}, timeBase: {Frac(1, Fps)}]

\* answers to one dequeueInputBuffer followed by a drain
HwEnv(h) ==
    UNION { [inputAvail: {a},
             k: 0..(Len(h.pending) + (IF InputBufferAvailable(h, a) THEN 1 ELSE 0))]
            : a \in IF Len(h.pending) < MaxPending THEN BOOLEAN ELSE {FALSE} }

UninitEnv(e, h) ==
    IF e.m_initialized THEN HwEnv(h) ELSE {[inputAvail |-> FALSE, k |-> 0]}

InitEnv(e, h) ==
    { [createOk |-> x[1], configureOk |-> x[2], startOk |-> x[3],
       configFirst |-> x[4], uninit |-> u]
      : x \in { y \in BOOLEAN \X BOOLEAN \X BOOLEAN \X BOOLEAN:
                  \* answers after the first refusal are never asked for
                  /\ (~y[1] => ~y[2])
                  /\ (~y[2] => ~y[3])
                  /\ (~y[3] => ~y[4]) },
        u \in UninitEnv(e, h) }

SetStateEnv(e, h, state) ==
    IF e.state = ElementStateNull /\ state # ElementStateNull
    THEN { [init |-> ie, uninit |-> ie.uninit] : ie \in InitEnv(e, h) }
    ELSE { [init |-> [createOk |-> FALSE, configureOk |-> FALSE, startOk |-> FALSE,
                      configFirst |-> FALSE, uninit |-> u],
            uninit |-> u]
           : u \in IF state = ElementStateNull /\ e.state # ElementStateNull
                   THEN UninitEnv(e, h) ELSE {[inputAvail |-> FALSE, k |-> 0]} }

\* the frames the fps control hands to encodeFrame for the frame src: none
\* (the frame is dropped), src itself, or src again to fill a gap, at most n
\* times in all; the hardware answers each one separately
RECURSIVE FramesEnv(_, _, _, _)
RECURSIVE FramesAfter(_, _, _, _)
FramesAfter(f, r, src, n) ==
    { << f >> \o rest : rest \in FramesEnv(r.enc, r.hw, src, n) }

FramesEnv(e, h, src, n) ==
    IF n = 0 THEN { <<>> }
    ELSE { <<>> } \cup
         UNION { FramesAfter([src |-> src, inputAvail |-> x.inputAvail, k |-> x.k],
                             encodeFrame(e, h, src, x), src, n - 1)
                 : x \in HwEnv(h) }

StreamEnv(e, h) ==
    IF StreamSkips(e)
    THEN { [discard |-> FALSE, converted |-> TRUE, frames |-> <<>>] }
    ELSE { [discard |-> TRUE, converted |-> TRUE, frames |-> <<>>],
           [discard |-> FALSE, converted |-> FALSE, frames |-> <<>>] }
         \cup { [discard |-> FALSE, converted |-> TRUE, frames |-> fs]
                : fs \in UNION { FramesEnv(e, h, src, MaxFill) : src \in Frames } }

\* setState(state) on the element
SetState ==
    \E state \in ElementState: \E env \in SetStateEnv(enc, hw, state):
        \E r \in {setState(enc, hw, state, env)}:
        /\ enc.alive
        /\ enc' = r.enc
        /\ hw' = r.hw
        /\ last' = IF state = ElementStateNull
                   THEN StopDone("setState", state, r, r.ret, enc.state)
                   ELSE Done("setState", state, r, r.ret, enc.state)
        /\ UNCHANGED <<threadVars, recVars, sess, cat, calc>>

\* the frames of env, as encodeFrame gets them one after the other
FramesOf(env) == [i \in DOMAIN env.frames |-> env.frames[i].src]

\* iVideoStream(packet) on the element
IVideoStream ==
    \E env \in StreamEnv(enc, hw):
        \E r \in {iVideoStream(enc, hw, env)}:
        /\ enc.alive
        /\ enc' = r.enc
        /\ hw' = r.hw
        /\ last' = Done("iVideoStream", FramesOf(env), r, FALSE, enc.state)
        /\ UNCHANGED <<threadVars, recVars, sess, cat, calc>>

\* AkVideoEncoder::setInputCaps(caps)
SetInputCaps ==
    \E caps \in InputCapsChoices:
        /\ enc.alive
        /\ pcC = "idle"
        /\ caps # enc.inputCaps
        /\ enc' = setInputCaps(enc, caps).enc
        /\ last' = Done("setInputCaps", caps,
                        [NoEffect(enc, hw) EXCEPT !.sig = setInputCaps(enc, caps).sig],
                        FALSE, enc.state)
        /\ UNCHANGED <<hw, threadVars, recVars, sess, cat, calc>>

\* AkVideoEncoder::setCodec(name)
SetCodec ==
    \E name \in CodecChoices:
        /\ enc.alive
        /\ name # enc.codec
        /\ enc' = [enc EXCEPT !.codec = name]
        /\ last' = Done("setCodec", name, NoEffect(enc, hw), FALSE, enc.state)
        /\ UNCHANGED <<hw, threadVars, recVars, sess, cat, calc>>

\* ~VideoEncoderNDKMediaElement: uninit(), then the element is gone
Destroy ==
    \E env \in UninitEnv(enc, hw):
        \E r \in {uninit(enc, hw, env)}:
        /\ enc.alive
        /\ enc' = [r.enc EXCEPT !.alive = FALSE]
        /\ hw' = r.hw
        /\ last' = StopDone("destroy", "", r, FALSE, enc.state)
        /\ UNCHANGED <<threadVars, recVars, sess, cat, calc>>

Next == SetState \/ IVideoStream \/ SetInputCaps \/ SetCodec \/ Destroy

Spec == Init /\ [][Next]_vars

(***************************************************************************)
(* Claims about the encoder element (Spec).                                *)
(***************************************************************************)
EncFieldsUnchanged == enc' = [enc EXCEPT !.alive = enc'.alive]

\* C1: iVideoStream on an element in state Null (never started, start
\* failed, or stopped) makes no hardware call, emits no packet and leaves
\* every field, the encoded-time counter included, and the hardware as they
\* were.
C1_EncodeWhileNullIsNoOp ==
    [][(last'.op = "iVideoStream" /\ enc.state = ElementStateNull)
       => /\ last'.calls = <<>>
          /\ last'.out = <<>>
          /\ last'.sig = <<>>
          /\ enc'.m_encodedTimePts = enc.m_encodedTimePts
          /\ enc' = enc
          /\ hw' = hw]_vars

\* C1 witness: a frame was offered to an element that had encoded frames,
\* was stopped, and then failed a restart at hardware start (so it holds a
\* codec handle while Null).
C1_Witness ==
    /\ last.op = "iVideoStream"
    /\ enc.state = ElementStateNull
    /\ enc.m_encodedTimePts > 0
    /\ enc.m_codec # NULL

\* C2: a stop (setState(Null), or the destructor's uninit) that directly
\* follows a stop makes no hardware call, emits no packet and leaves every
\* field of the element and the hardware as the first stop left them.
C2_StopTwiceIsIdempotent ==
    [][(IsStop(last) /\ IsStop(last'))
       => /\ last'.calls = <<>>
          /\ last'.out = <<>>
          /\ EncFieldsUnchanged
          /\ hw' = hw]_vars

\* C2 witness: a second stop directly after a stop, on an element that had
\* started a session (a handle was created, and none is left).
C2_Witness ==
    /\ IsStop(last)
    /\ last.prevStop
    /\ last.before = ElementStateNull
    /\ last.calls = <<>>
    /\ hw.created > 0
    /\ enc.m_codec = NULL
    /\ ~enc.m_initialized
    /\ hw.live = {}

\* C4: when a start logs a failure (input caps absent, no MIME type, no
\* encoder, configure rejected, start rejected) setState returns false, the
\* element stays Null, uninitialised and with its paused flag false, and no
\* hardware codec is left started.
StartLogs == {"Invalid input format.", "Mimetype not found", "Encoder not found",
              "Encoder configuration failed", "Failed to start the encoding"}

C4_FailedStartLeavesNull ==
    (last.op = "setState" /\ last.log \in StartLogs)
    => /\ ~last.ret
       /\ enc.state = ElementStateNull
       /\ ~enc.m_initialized
       /\ ~enc.m_paused
       /\ hw.started = {}

\* C4 witness: a start to Paused that the hardware rejected at start.
C4_Witness ==
    /\ last.op = "setState"
    /\ last.arg = ElementStatePaused
    /\ last.log = "Failed to start the encoding"

\* C5 (as claimed): whenever the element is in Null every codec handle it
\* created has been deleted.
C5_NoHandleLeakedInNull ==
    enc.state = ElementStateNull => hw.live = {}

(***************************************************************************)
(* A producer thread in iVideoStream and a controller thread in setState   *)
(* on the same element (SpecConc). Each thread moves one step at a time:   *)
(* the call, the QMutexLocker, the body under the lock. Writes that the    *)
(* code makes outside the lock (m_paused in setState, init() after its     *)
(* uninit()) are steps of their own, so they interleave with the producer. *)
(***************************************************************************)
\* a locker in uninit that does not wait for the owner
uninitLock_NoWait(m) == TRUE

\* uninit's QMutexLocker returns once m_mutex has no owner
uninitLock(m) == m = "none"

\* iVideoStream's QMutexLocker returns once m_mutex has no owner
streamLock(m) == m = "none"

\* the producer calls iVideoStream(packet)
P_Call ==
    /\ pcP = "idle"
    /\ pcP' = "lock"
    /\ UNCHANGED <<enc, hw, last, pcC, mutex, recVars, sess, cat, calc>>

P_Lock ==
    /\ pcP = "lock"
    /\ streamLock(mutex)
    /\ mutex' = "P"
    /\ pcP' = "locked"
    /\ UNCHANGED <<enc, hw, last, pcC, recVars, sess, cat, calc>>

\* the tests before the frame reaches the encoder: session flags, the fps
\* control's discard, the conversion
P_Check ==
    /\ pcP = "locked"
    /\ \E pass \in BOOLEAN:
        IF StreamSkips(enc) \/ ~pass
        THEN /\ pcP' = "idle"
             /\ mutex' = "none"
             /\ last' = Done("iVideoStream", "", NoEffect(enc, hw), FALSE, enc.state)
        ELSE /\ pcP' = "encode"
             /\ UNCHANGED <<mutex, last>>
    /\ UNCHANGED <<enc, hw, pcC, recVars, sess, cat, calc>>

\* m_fpsControl->iStream(src): encodeFrame for each frame let through, then
\* the locker is released
P_Encode ==
    /\ pcP = "encode"
    /\ \E fs \in UNION { FramesEnv(enc, hw, src, MaxFill) : src \in Frames }:
        \E r \in {encodeFrames(enc, hw, fs)}:
        /\ enc' = r.enc
        /\ hw' = r.hw
        /\ last' = Done("iVideoStream", "", r, FALSE, enc.state)
    /\ pcP' = "idle"
    /\ mutex' = "none"
    /\ UNCHANGED <<pcC, recVars, sess, cat, calc>>

\* setState on a path that does not stop a session: a start (init() passes
\* uninit's locker first), a pause or resume, or a request that returns false
C_SetState ==
    /\ pcC = "idle"
    /\ \E state \in ElementState:
        /\ enc.state = ElementStateNull \/ state # ElementStateNull
        /\ (enc.state = ElementStateNull /\ state # ElementStateNull)
           => uninitLock(mutex)
        /\ \E env \in SetStateEnv(enc, hw, state):
            \E r \in {setState(enc, hw, state, env)}:
            /\ enc' = r.enc
            /\ hw' = r.hw
            /\ last' = Done("setState", state, r, r.ret, enc.state)
    /\ UNCHANGED <<threadVars, recVars, sess, cat, calc>>

\* setState(Null) on a Paused or Playing element calls uninit()
C_Call ==
    /\ pcC = "idle"
    /\ enc.state # ElementStateNull
    /\ pcC' = "lock"
    /\ UNCHANGED <<enc, hw, last, pcP, mutex, recVars, sess, cat, calc>>

C_Lock ==
    /\ pcC = "lock"
    /\ uninitLock(mutex)
    /\ mutex' = "C"
    /\ pcC' = "locked"
    /\ UNCHANGED <<enc, hw, last, pcP, recVars, sess, cat, calc>>

\* uninit's body, then the locker is released
C_Uninit ==
    /\ pcC = "locked"
    /\ \E env \in UninitEnv(enc, hw):
        \E r \in {uninit(enc, hw, env)}:
        /\ enc' = r.enc
        /\ hw' = r.hw
        /\ last' = Done("uninit", "", r, FALSE, enc.state)
    /\ pcC' = "base"
    /\ mutex' = "none"
    /\ UNCHANGED <<pcP, recVars, sess, cat, calc>>

\* return AkElement::setState(ElementStateNull)
C_Base ==
    /\ pcC = "base"
    /\ \E b \in {AkElement_setState(enc, ElementStateNull)}:
        /\ enc' = b.enc
        /\ last' = Done("setState", ElementStateNull, NoEffect(enc, hw), b.ret,
                        enc.state)
    /\ pcC' = "idle"
    /\ UNCHANGED <<hw, pcP, mutex, recVars, sess, cat, calc>>

NextConc ==
    \/ P_Call \/ P_Lock \/ P_Check \/ P_Encode
    \/ C_SetState \/ C_Call \/ C_Lock \/ C_Uninit \/ C_Base
    \/ SetInputCaps

SpecConc == Init /\ [][NextConc]_vars

\* C3: in every interleaving the producer's critical section (from its
\* locker to the end of the frame-in/packet-out cycle) and the controller's
\* (uninit's body) never overlap, and while the producer is in the cycle
\* the codec handle it uses is the started one: not being drained and not
\* deleted.
C3_EncodeAndStopExclusive ==
    /\ ~(pcP \in {"locked", "encode"} /\ pcC = "locked")
    /\ pcP = "encode" => /\ enc.m_initialized
                         /\ enc.m_codec \in hw.started
                         /\ enc.m_codec \in hw.live
                         /\ mutex = "P"

\* C3 witness: the controller waits at uninit's locker while the producer
\* is inside the cycle of a started session with output pending.
C3_Witness ==
    /\ pcP = "encode"
    /\ pcC = "lock"
    /\ enc.m_initialized
    /\ hw.pending # <<>>

(***************************************************************************)
(* The recording orchestrator (Recording, RecordingPrivate) with its       *)
(* children (SpecRec). The video encoder child is the element above; the   *)
(* muxer and the audio encoder are known by their interface only. A        *)
(* handler works on the pipeline p: the orchestrator, the children, and    *)
(* the trace of calls it has made on the children so far.                  *)
(***************************************************************************)
StreamVideo == "video"
StreamAudio == "audio"

Ev(to, f, a, r) == [to |-> to, f |-> f, a |-> a, r |-> r]

Pipe(r, e, h, m, a, g) ==
    [rec |-> r, enc |-> e, hw |-> h, mux |-> m, aenc |-> a, hist |-> g,
     trace |-> <<>>,
     calls |-> <<>>, out |-> <<>>, sig |-> <<>>, log |-> "", ret |-> FALSE]

\* AkElement::setState of a child known by its interface: it returns false
\* and stays when asked for its own state or when it cannot start
Child_setState(c, state, ok) ==
    IF c.state = state \/ (~ok /\ state # ElementStateNull)
    THEN [child |-> c, ret |-> FALSE]
    ELSE [child |-> [c EXCEPT !.state = state], ret |-> TRUE]

\* The packets the video encoder emits go, over the direct connection that
\* init() makes with link(), into the muxer's iStream while the call on the
\* encoder is running; the event tells the state the muxer was in, or that
\* the muxer held now is not the one the encoder is linked to.
oStreamEvents(p, out) ==
    [i \in 1..Len(out) |->
        Ev("videoEncoder", "oStream", out[i].kind,
           IF p.hist.vLinked THEN p.mux.state ELSE "unlinked")]

videoDone(p, state, r) ==
    [p EXCEPT !.enc = r.enc, !.hw = r.hw,
              !.hist.vPackets = @ \/ (p.hist.on /\ r.out # <<>>),
              !.trace = (@ \o oStreamEvents(p, r.out))
                        \o << Ev("videoEncoder", "setState", state, r.ret) >>,
              !.calls = @ \o r.calls, !.out = @ \o r.out]

\* m_videoEncoder->setState(state); the result is not looked at
videoSetState(p, state, env) ==
    videoDone(p, state, setState(p.enc, p.hw, state, env))

audioDone(p, state, r) ==
    [p EXCEPT !.aenc = r.child,
              !.trace = Append(@, Ev("audioEncoder", "setState", state, r.ret))]

\* m_audioEncoder->setState(state); the result is not looked at
audioSetState(p, state, ok) ==
    audioDone(p, state, Child_setState(p.aenc, state, ok))

muxerDone(p, state, r) ==
    [p EXCEPT !.mux = r.child,
              !.trace = Append(@, Ev("muxer", "setState", state, r.ret))]

\* m_muxer->setState(state); the result is not looked at
muxerSetState(p, state, ok) ==
    muxerDone(p, state, Child_setState(p.mux, state, ok))

\* m_muxer->setStreamCaps / setStreamBitrate / setStreamHeaders /
\* setStreamDuration for one stream
muxerSet(p, f, stream) ==
    [p EXCEPT !.trace = Append(@, Ev("muxer", f, stream, TRUE))]

\* m_muxer->setStreamDuration(CapsType_Video, videoDuration)
muxerSetVideoDuration(p, videoDuration) ==
    [p EXCEPT !.trace = Append(@, Ev("muxer", "setStreamDuration", StreamVideo,
                                     videoDuration))]

\* m_videoEncoder->link(m_muxer, Qt::DirectConnection); a recording begins
linkVideo(p) ==
    [p EXCEPT !.hist = [NoHistory EXCEPT !.on = p.hist.on, !.vLinked = TRUE]]

\* init(): the video encoder's inputs, then its caps and bitrate go to the
\* muxer
initVideoConfig(p) ==
    linkVideo(
        muxerSet(
            muxerSet([p EXCEPT !.enc = setInputCaps(@, p.rec.m_videoCaps).enc,
                               !.trace = @ \o << Ev("muxer", "setLocation", "", TRUE),
                                                 Ev("videoEncoder", "setInputCaps",
                                                    p.rec.m_videoCaps, TRUE) >>],
                     "setStreamCaps", StreamVideo),
            "setStreamBitrate", StreamVideo))

\* init(): the audio encoder, when there is one, is configured, registered,
\* paused, and its headers go to the muxer
initAudio(p, env) ==
    IF ~p.rec.m_audioEncoder THEN p
    ELSE muxerSet(
             audioSetState(
                 muxerSet(muxerSet(p, "setStreamCaps", StreamAudio),
                          "setStreamBitrate", StreamAudio),
                 ElementStatePaused, env.aPaused),
             "setStreamHeaders", StreamAudio)

\* a start sequence that hands the video headers over before pausing
initVideoPaused_HeadersFirst(p, env) ==
    videoSetState(muxerSet(p, "setStreamHeaders", StreamVideo),
                  ElementStatePaused, env.vPaused)

\* init(): the video encoder is paused and its headers go to the muxer
initVideoPaused(p, env) ==
    muxerSet(videoSetState(p, ElementStatePaused, env.vPaused),
             "setStreamHeaders", StreamVideo)

initMuxerPlaying(p, env) == muxerSetState(p, ElementStatePlaying, env.muxOk)

initAudioPlaying(p, env) ==
    IF ~p.rec.m_audioEncoder THEN p
    ELSE audioSetState(p, ElementStatePlaying, env.aPlaying)

initVideoPlaying(p, env) == videoSetState(p, ElementStatePlaying, env.vPlaying)

initFinish(p) == [p EXCEPT !.rec.m_isRecording = TRUE, !.ret = TRUE]

\* a test that lets a start go on without a video encoder
initMissing_OnlyMuxer(p) == ~p.rec.m_muxer

\* init(): no muxer or no video encoder
initMissing(p) == ~p.rec.m_muxer \/ ~p.rec.m_videoEncoder

initMissingLog(p) ==
    [p EXCEPT !.log = IF ~p.rec.m_muxer THEN "Muxer not set"
                      ELSE "Video codec not set"]

RecordingPrivate_init(p, env) ==
    IF ~env.mkpathOk THEN p
    ELSE IF initMissing(p) THEN initMissingLog(p)
    ELSE initFinish(
             initVideoPlaying(
                 initAudioPlaying(
                     initMuxerPlaying(
                         initVideoPaused(initAudio(initVideoConfig(p), env), env),
                         env),
                     env),
                 env))

\* uninit(): the video encoder is stopped first
uninitVideo(p, env) ==
    IF ~p.rec.m_videoEncoder THEN p
    ELSE videoSetState(p, ElementStateNull, env.vNull)

uninitAudio(p, env) ==
    IF ~p.rec.m_audioEncoder THEN p
    ELSE audioSetState(p, ElementStateNull, TRUE)

\* the durations read from the stopped encoders, then the muxer is stopped
uninitDurations(p, env) ==
    IF p.rec.m_videoEncoder /\ p.enc.m_encodedTimePts > 0
    THEN muxerSetVideoDuration(
             IF p.rec.m_audioEncoder /\ env.audioDuration
             THEN muxerSet(p, "setStreamDuration", StreamAudio) ELSE p,
             p.enc.m_encodedTimePts)
    ELSE IF p.rec.m_audioEncoder /\ env.audioDuration
         THEN muxerSet(p, "setStreamDuration", StreamAudio) ELSE p

uninitMuxer(p, env) ==
    IF ~p.rec.m_muxer THEN p
    ELSE muxerSetState(uninitDurations(p, env), ElementStateNull, TRUE)

\* m_muxer->location() is called whether or not there is a muxer; without
\* one the call is on a null pointer and the process may end there
uninitLocation(p, env) ==
    IF p.rec.m_muxer
    THEN [p EXCEPT !.trace = Append(@, Ev("muxer", "location", "", TRUE))]
    ELSE [p EXCEPT !.trace = Append(@, Ev("null", "location", "", env.survives)),
                   !.rec.crashed = ~env.survives]

\* the children held now
Children(r) ==
    {c \in {"muxer", "videoEncoder", "audioEncoder"}:
        \/ c = "muxer" /\ r.m_muxer
        \/ c = "videoEncoder" /\ r.m_videoEncoder
        \/ c = "audioEncoder" /\ r.m_audioEncoder}

\* the recording has ended: the children it leaves behind have been used
recordingEnded(p) ==
    [p EXCEPT !.hist = [NoHistory EXCEPT
                            !.on = p.hist.on,
                            !.used = IF p.hist.on THEN Children(p.rec) ELSE {}]]

RecordingPrivate_uninit(p, env) ==
    IF ~p.rec.m_isRecording THEN p
    ELSE recordingEnded(
             uninitLocation(
                 uninitMuxer(
                     uninitAudio(
                         uninitVideo([p EXCEPT !.rec.m_isRecording = FALSE], env),
                         env),
                     env),
                 env))

\* m_pause and m_state are set, stateChanged is emitted, true is returned
stateSet(p, pause, state) ==
    [p EXCEPT !.rec.m_pause = pause, !.rec.m_state = state,
              !.sig = Append(@, Signal("stateChanged", state)), !.ret = TRUE]

\* Null to Playing after init() returned
recStarted(r, state) ==
    IF ~r.ret THEN r ELSE stateSet(r, r.rec.m_pause, state)

\* a request for the current state that is announced like a change
sameState_Announced(p) == stateSet(p, p.rec.m_pause, p.rec.m_state)

\* the request is for the state the orchestrator is in: `break`, then
\* `return false`
sameState(p) == p

Recording_setState(p, state, env) ==
    CASE p.rec.m_state = ElementStateNull /\ state = ElementStatePaused ->
            stateSet(p, TRUE, state)
      [] p.rec.m_state = ElementStateNull /\ state = ElementStatePlaying ->
            recStarted(RecordingPrivate_init(p, env), state)
      [] p.rec.m_state = ElementStatePaused /\ state = ElementStateNull ->
            stateSet(RecordingPrivate_uninit(p, env), FALSE, state)
      [] p.rec.m_state = ElementStatePaused /\ state = ElementStatePlaying ->
            stateSet(p, FALSE, state)
      [] p.rec.m_state = ElementStatePlaying /\ state = ElementStateNull ->
            stateSet(RecordingPrivate_uninit(p, env), FALSE, state)
      [] p.rec.m_state = ElementStatePlaying /\ state = ElementStatePaused ->
            stateSet(p, TRUE, state)
      [] OTHER -> sameState(p)

\* what the environment decides during an orchestrator handler: whether the
\* directory can be made, whether the muxer and the audio encoder start, the
\* hardware's answers to the video encoder, whether the audio encoder
\* produced output, and what a call on a null muxer does. Under the
\* orchestrator the hardware either refuses a start (at create, configure or
\* start) or works promptly: it takes every frame and returns every pending
\* buffer to the next drain.
PromptHw == [inputAvail |-> TRUE, k |-> MaxPending + 1]

RecInitEnv ==
    { [createOk |-> x[1], configureOk |-> x[2], startOk |-> x[3],
       configFirst |-> FALSE, uninit |-> PromptHw]
      : x \in { <<TRUE, TRUE, TRUE>>, <<TRUE, TRUE, FALSE>>,
                <<TRUE, FALSE, FALSE>>, <<FALSE, FALSE, FALSE>> } }

RecVideoEnv(e, state) ==
    IF e.state = ElementStateNull /\ state # ElementStateNull
    THEN { [init |-> ie, uninit |-> PromptHw] : ie \in RecInitEnv }
    ELSE { [init |-> [createOk |-> FALSE, configureOk |-> FALSE,
                      startOk |-> FALSE, configFirst |-> FALSE,
                      uninit |-> PromptHw],
            uninit |-> PromptHw] }

QuietHw == [inputAvail |-> FALSE, k |-> 0]
QuietEnv ==
    [init |-> [createOk |-> FALSE, configureOk |-> FALSE, startOk |-> FALSE,
               configFirst |-> FALSE, uninit |-> QuietHw],
     uninit |-> QuietHw]
QuietRecEnv ==
    [mkpathOk |-> TRUE, aPaused |-> TRUE, aPlaying |-> TRUE, muxOk |-> TRUE,
     vPaused |-> QuietEnv, vPlaying |-> QuietEnv, vNull |-> QuietEnv,
     audioDuration |-> FALSE, survives |-> TRUE]

ChildEnv(p) ==
    { [aPaused |-> a[1], aPlaying |-> a[2], muxOk |-> m]
      : a \in IF p.rec.m_audioEncoder THEN BOOLEAN \X BOOLEAN
                                      ELSE {<<TRUE, TRUE>>},
        m \in BOOLEAN }

\* the answers to the second video setState depend on what the first left
StartEnvAfter(c, v1, r) ==
    { [QuietRecEnv EXCEPT !.aPaused = c.aPaused, !.aPlaying = c.aPlaying,
                          !.muxOk = c.muxOk, !.vPaused = v1, !.vPlaying = v2]
      : v2 \in RecVideoEnv(r.enc, ElementStatePlaying) }

StartEnvWith(e, h, cs) ==
    UNION { StartEnvAfter(c, v1, setState(e, h, ElementStatePaused, v1))
            : c \in cs, v1 \in RecVideoEnv(e, ElementStatePaused) }

StartEnv(p) ==
    { [QuietRecEnv EXCEPT !.mkpathOk = FALSE] }
    \cup IF ~p.rec.m_muxer \/ ~p.rec.m_videoEncoder
         THEN { QuietRecEnv }
         ELSE StartEnvWith(setInputCaps(p.enc, p.rec.m_videoCaps).enc, p.hw,
                           ChildEnv(p))

StopEnv(p) ==
    IF ~p.rec.m_isRecording THEN { QuietRecEnv }
    ELSE { [QuietRecEnv EXCEPT !.vNull = v, !.audioDuration = a, !.survives = s]
           : v \in IF p.rec.m_videoEncoder
                   THEN RecVideoEnv(p.enc, ElementStateNull)
                   ELSE { QuietEnv },
             a \in IF p.rec.m_audioEncoder THEN BOOLEAN ELSE { FALSE },
             s \in IF p.rec.m_muxer THEN { TRUE } ELSE BOOLEAN }

RecSetStateEnv(p, state) ==
    IF p.rec.m_state = ElementStateNull /\ state = ElementStatePlaying
    THEN StartEnv(p)
    ELSE IF p.rec.m_state # ElementStateNull /\ state = ElementStateNull
    THEN StopEnv(p)
    ELSE { QuietRecEnv }

RecDone(op, arg, p, before, h) ==
    [op |-> op, arg |-> arg, ret |-> p.ret, calls |-> <<>>, out |-> <<>>,
     sig |-> p.sig, log |-> p.log, before |-> before, trace |-> p.trace,
     prevStop |-> FALSE, hist |-> h]

InitRec ==
    /\ \E muxer, videoEncoder, audioEncoder \in BOOLEAN:
        /\ rec = RecordingNew(muxer, videoEncoder, audioEncoder)
        /\ enc = IF videoEncoder THEN EncInit(TRUE) ELSE NoEncoder
    /\ hw = HwInit
    /\ mux = MuxerNew
    /\ aenc = AudioEncoderNew
    /\ hist = NoHistory
    /\ sess = NoSession
    /\ cat = NoCatalog
    /\ calc = NoCalc
    /\ last = NoLast
    /\ IdleThreads

\* Recording::setState(state)
RecSetState ==
    /\ ~rec.crashed
    /\ \E state \in ElementState:
        \E env \in RecSetStateEnv(Pipe(rec, enc, hw, mux, aenc, hist), state):
        \E r \in {Recording_setState(Pipe(rec, enc, hw, mux, aenc, hist), state, env)}:
        /\ rec' = r.rec
        /\ enc' = r.enc
        /\ hw' = r.hw
        /\ mux' = r.mux
        /\ aenc' = r.aenc
        /\ hist' = r.hist
        /\ last' = RecDone("Recording::setState", state, r, rec.m_state, hist)
    /\ UNCHANGED <<threadVars, sess, cat, calc>>

\* Recording::iStream(packet) for a video packet
RECURSIVE SumDurations(_)
SumDurations(frames) ==
    IF frames = <<>> THEN 0
    ELSE Head(frames).src.duration + SumDurations(Tail(frames))

\* the durations of the frames the encoder was given to encode, when it
\* encoded (encodedTimePtsChanged is emitted once for each)
EncodedDuration(r, env) ==
    IF r.sig = <<>> THEN 0 ELSE SumDurations(env.frames)

forwardVideo(p, r, env) ==
    [p EXCEPT !.enc = r.enc, !.hw = r.hw, !.calls = r.calls, !.out = r.out,
              !.hist.vPackets = @ \/ (p.hist.on /\ r.out # <<>>),
              !.hist.vFrames = IF p.hist.on THEN @ + EncodedDuration(r, env)
                               ELSE @,
              !.trace = << Ev("videoEncoder", "iStream", "", TRUE) >>
                        \o oStreamEvents(p, r.out)]

\* Recording::iStream(packet) for an audio packet
forwardAudio(p) ==
    [p EXCEPT !.trace = << Ev("audioEncoder", "iStream", "", TRUE) >>]

\* the fps control drops the frame or hands it on once
RecIStreamEnv ==
    { [discard |-> TRUE, converted |-> TRUE, frames |-> <<>>] }
    \cup IF /\ rec.m_isRecording
            /\ rec.m_videoEncoder
            /\ hist.on => hist.vFrames < MaxFrames
         THEN { [discard |-> FALSE, converted |-> TRUE,
                 frames |-> << [src |-> src, inputAvail |-> PromptHw.inputAvail,
                                k |-> PromptHw.k] >>]
                : src \in Frames }
         ELSE {}

Recording_iStream(p, type, env) ==
    IF ~p.rec.m_isRecording THEN p
    ELSE IF type = StreamAudio
    THEN (IF p.rec.m_audioEncoder THEN forwardAudio(p) ELSE p)
    ELSE (IF p.rec.m_videoEncoder
          THEN forwardVideo(p, iVideoStream(p.enc, p.hw, env), env) ELSE p)

RecIStream ==
    /\ ~rec.crashed
    /\ \E type \in {StreamAudio, StreamVideo}:
        \E env \in IF type = StreamVideo THEN RecIStreamEnv
                   ELSE { [discard |-> TRUE, converted |-> TRUE, frames |-> <<>>] }:
        \E r \in {Recording_iStream(Pipe(rec, enc, hw, mux, aenc, hist), type, env)}:
        /\ enc' = r.enc
        /\ hw' = r.hw
        /\ hist' = r.hist
        /\ last' = RecDone("Recording::iStream", type, r, ElementStateNull, NoHistory)
    /\ UNCHANGED <<rec, mux, aenc, threadVars, sess, cat, calc>>

\* Recording::setVideoFormat(format) with another format: m_muxer becomes a
\* new muxer, or null when the plugin cannot be created
RecSetVideoFormat ==
    /\ ~rec.crashed
    /\ \E created \in BOOLEAN:
        /\ created \/ rec.m_muxer
        /\ rec' = [rec EXCEPT !.m_muxer = created]
    /\ mux' = MuxerNew
    /\ hist' = [hist EXCEPT !.vLinked = FALSE, !.used = @ \ {"muxer"}]
    /\ last' = RecDone("Recording::setVideoFormat", "",
                       Pipe(rec, enc, hw, mux, aenc, hist), ElementStateNull,
                       NoHistory)
    /\ UNCHANGED <<enc, hw, aenc, threadVars, sess, cat, calc>>

\* Recording::setCodec(CapsAudio, codec) with another codec
RecSetAudioCodec ==
    /\ ~rec.crashed
    /\ \E created \in BOOLEAN:
        /\ created \/ rec.m_audioEncoder
        /\ rec' = [rec EXCEPT !.m_audioEncoder = created]
    /\ aenc' = AudioEncoderNew
    /\ hist' = [hist EXCEPT !.used = @ \ {"audioEncoder"}]
    /\ last' = RecDone("Recording::setCodec", StreamAudio,
                       Pipe(rec, enc, hw, mux, aenc, hist), ElementStateNull,
                       NoHistory)
    /\ UNCHANGED <<enc, hw, mux, threadVars, sess, cat, calc>>

\* Recording::setCodec(CapsVideo, codec) with another codec: the encoder
\* that m_videoEncoder held is destroyed, m_videoEncoder becomes a new
\* element or null
RecSetVideoCodec ==
    /\ ~rec.crashed
    /\ \E created \in BOOLEAN:
        \E r \in {uninit(enc, hw, PromptHw)}:
        /\ created \/ rec.m_videoEncoder
        /\ rec' = [rec EXCEPT !.m_videoEncoder = created]
        /\ enc' = IF created THEN EncInit(TRUE) ELSE NoEncoder
        /\ hw' = r.hw
        /\ hist' = [hist EXCEPT
                        !.vLinked = FALSE,
                        !.vPackets = @ \/ (hist.on /\ rec.m_isRecording
                                              /\ r.out # <<>>),
                        !.used = @ \ {"videoEncoder"}]
        /\ last' = RecDone("Recording::setCodec", StreamVideo,
                           Pipe(rec, enc, hw, mux, aenc, hist), ElementStateNull,
                       NoHistory)
    /\ UNCHANGED <<mux, aenc, threadVars, sess, cat, calc>>

NextRec ==
    \/ RecSetState \/ RecIStream
    \/ RecSetVideoFormat \/ RecSetAudioCodec \/ RecSetVideoCodec

SpecRec == InitRec /\ [][NextRec]_vars

(***************************************************************************)
(* The orchestrator with a tally kept of each recording (SpecTake): the    *)
(* frames given to the video encoder and the packets it emitted since the  *)
(* start, and the children a recording leaves behind. The recordAudio      *)
(* option is as the configuration has it and can be changed at any time.   *)
(***************************************************************************)
InitTake ==
    /\ \E audioEncoder, recordAudio \in BOOLEAN:
        rec = [RecordingNew(TRUE, TRUE, audioEncoder)
               EXCEPT !.m_recordAudio = recordAudio]
    /\ enc = EncInit(TRUE)
    /\ hw = HwInit
    /\ mux = MuxerNew
    /\ aenc = AudioEncoderNew
    /\ hist = [NoHistory EXCEPT !.on = TRUE]
    /\ sess = NoSession
    /\ cat = NoCatalog
    /\ calc = NoCalc
    /\ last = NoLast
    /\ IdleThreads

\* Recording::setRecordAudio(recordAudio)
RecSetRecordAudio ==
    /\ ~rec.crashed
    /\ \E recordAudio \in BOOLEAN:
        /\ rec.m_recordAudio # recordAudio
        /\ rec' = [rec EXCEPT !.m_recordAudio = recordAudio]
        /\ last' = [RecDone("Recording::setRecordAudio", recordAudio,
                            Pipe(rec, enc, hw, mux, aenc, hist),
                            ElementStateNull, NoHistory)
                    EXCEPT !.sig = << Signal("recordAudioChanged", recordAudio) >>]
    /\ UNCHANGED <<enc, hw, mux, aenc, hist, threadVars, sess, cat, calc>>

NextTake ==
    \/ RecSetState \/ RecIStream \/ RecSetRecordAudio
    \/ RecSetVideoFormat \/ RecSetAudioCodec \/ RecSetVideoCodec

SpecTake == InitTake /\ [][NextTake]_vars

(***************************************************************************)
(* Claims about the orchestrator (SpecRec).                                *)
(***************************************************************************)
IsRecSetState(l) == l.op = "Recording::setState"

IsStart(l) ==
    /\ IsRecSetState(l)
    /\ l.before = ElementStateNull
    /\ l.arg = ElementStatePlaying

Running == {ElementStatePaused, ElementStatePlaying}

\* C6 (as claimed): whenever the orchestrator is in Paused or Playing,
\* init() has succeeded for the current session (isRecording is true), and
\* a transition between Paused and Playing calls no child.
C6_RunningImpliesInitSucceeded ==
    /\ rec.m_state \in Running => rec.m_isRecording
    /\ (IsRecSetState(last) /\ last.before \in Running /\ last.arg \in Running)
       => last.trace = <<>>

\* C7 (as claimed): after every completed orchestrator setState the video
\* encoder, the audio encoder when there is one, and the muxer are in the
\* orchestrator's state.
C7_ChildrenMirrorOrchestrator ==
    (IsRecSetState(last) /\ ~rec.crashed)
    => /\ rec.m_videoEncoder => enc.state = rec.m_state
       /\ rec.m_audioEncoder => aenc.state = rec.m_state
       /\ rec.m_muxer => mux.state = rec.m_state

\* a child refused a state during the last handler
ChildFailed(l) ==
    \E i \in DOMAIN l.trace: l.trace[i].f = "setState" /\ ~l.trace[i].r

\* C8 (as claimed): when a child fails to start during the start sequence,
\* the start returns false and the orchestrator is left as before the
\* recording: state Null, isRecording false, every child in Null.
C8_FailedChildAbortsStart ==
    (IsStart(last) /\ ChildFailed(last))
    => /\ ~last.ret
       /\ rec.m_state = ElementStateNull
       /\ ~rec.m_isRecording
       /\ enc.state = ElementStateNull
       /\ aenc.state = ElementStateNull
       /\ mux.state = ElementStateNull

\* C9: a start (Null to Playing) requested with no muxer or no video
\* encoder returns false and changes nothing: the orchestrator's fields,
\* the children and the hardware stay as they were, stateChanged is not
\* emitted and no call is made on a child.
C9_StartWithoutMuxerOrEncoder ==
    [][(/\ IsRecSetState(last')
        /\ last'.arg = ElementStatePlaying
        /\ rec.m_state = ElementStateNull
        /\ ~rec.m_muxer \/ ~rec.m_videoEncoder)
       => /\ ~last'.ret
          /\ rec' = rec
          /\ enc' = enc
          /\ hw' = hw
          /\ mux' = mux
          /\ aenc' = aenc
          /\ last'.sig = <<>>
          /\ last'.trace = <<>>]_vars

\* C9 witness: a start was refused for want of a video encoder while a
\* muxer and an audio encoder were there.
C9_Witness ==
    /\ IsStart(last)
    /\ last.log = "Video codec not set"
    /\ ~last.ret
    /\ rec.m_muxer
    /\ rec.m_audioEncoder
    /\ ~rec.m_videoEncoder

EncoderOf(stream) ==
    IF stream = StreamVideo THEN "videoEncoder" ELSE "audioEncoder"

\* position i of the trace t is the muxer setter f
IsMuxerSet(t, i, f) == t[i].to = "muxer" /\ t[i].f = f

\* position j of the trace t is setState(Paused) on the encoder of stream s
IsPause(t, j, s) ==
    /\ t[j].to = EncoderOf(s)
    /\ t[j].f = "setState"
    /\ t[j].a = ElementStatePaused

IsMuxerStart(t, k) ==
    t[k].to = "muxer" /\ t[k].f = "setState" /\ t[k].a = ElementStatePlaying

IsEncoderStart(t, i) ==
    /\ t[i].to \in {"videoEncoder", "audioEncoder"}
    /\ t[i].f = "setState"
    /\ t[i].a = ElementStatePlaying
    /\ t[i].r

\* before position i of the trace t the muxer was handed the caps and the
\* headers of stream s
MuxerKnows(t, i, s) ==
    /\ \E j \in 1..(i - 1): IsMuxerSet(t, j, "setStreamCaps") /\ t[j].a = s
    /\ \E j \in 1..(i - 1): IsMuxerSet(t, j, "setStreamHeaders") /\ t[j].a = s

\* before position i of the trace t the muxer was started, and it started
MuxerStartedBefore(t, i) ==
    \E k \in 1..(i - 1): IsMuxerStart(t, k) /\ t[k].r

\* C11 (as claimed): in the start sequence an encoder is set to Playing only
\* after the muxer has received the caps and headers of every recorded
\* stream and has itself been started, the video encoder is the last
\* component started, and a frame is forwarded to the video encoder only
\* while the muxer is Playing.
C11_EncodersStartAfterMuxerStarted ==
    /\ IsStart(last)
       => \A i \in DOMAIN last.trace:
              IsEncoderStart(last.trace, i)
              => /\ MuxerStartedBefore(last.trace, i)
                 /\ MuxerKnows(last.trace, i, StreamVideo)
                 /\ rec.m_audioEncoder => MuxerKnows(last.trace, i, StreamAudio)
                 /\ last.trace[i].to = "videoEncoder" => i = Len(last.trace)
    /\ (last.op = "Recording::iStream" /\ last.trace # <<>>)
       => mux.state = ElementStatePlaying

\* the orchestrator went from Paused or Playing to Null
IsRecStop(l) ==
    /\ IsRecSetState(l)
    /\ l.before \in Running
    /\ l.arg = ElementStateNull

\* position i of the trace t is setState(Null) on the child c
IsChildStop(t, i, c) ==
    t[i].to = c /\ t[i].f = "setState" /\ t[i].a = ElementStateNull

\* position i of the trace t is a packet leaving the video encoder
IsPacket(t, i) == t[i].to = "videoEncoder" /\ t[i].f = "oStream"

\* C12 (as claimed): in every stop of a running recording the video encoder
\* is stopped and drained first, then the audio encoder, then the durations
\* are registered, and only then is the muxer stopped; every packet drained
\* from the encoder during the stop is delivered while the muxer is Playing.
C12_StopDrainsIntoPlayingMuxer ==
    IsRecStop(last)
    => \A i, j \in DOMAIN last.trace:
        /\ (IsChildStop(last.trace, i, "videoEncoder")
            /\ \/ IsChildStop(last.trace, j, "audioEncoder")
               \/ IsMuxerSet(last.trace, j, "setStreamDuration")
               \/ IsChildStop(last.trace, j, "muxer"))
           => i < j
        /\ (IsChildStop(last.trace, i, "audioEncoder")
            /\ \/ IsMuxerSet(last.trace, j, "setStreamDuration")
               \/ IsChildStop(last.trace, j, "muxer"))
           => i < j
        /\ (IsMuxerSet(last.trace, i, "setStreamDuration")
            /\ IsChildStop(last.trace, j, "muxer"))
           => i < j
        /\ IsPacket(last.trace, i) => last.trace[i].r = ElementStatePlaying

(***************************************************************************)
(* Claims about a recording and its tally (SpecTake).                      *)
(***************************************************************************)
\* position i of the trace t registers the video stream's duration
IsVideoDuration(t, i) ==
    IsMuxerSet(t, i, "setStreamDuration") /\ t[i].a = StreamVideo

\* the video encoder emitted a packet in the recording that the handler l
\* stopped: before the stop, or while the stop drained it
VideoPacketsEmitted(l) ==
    l.hist.vPackets \/ \E j \in DOMAIN l.trace: IsPacket(l.trace, j)

\* C13 (as claimed): at stop the video stream's duration is registered with
\* the muxer only if the video encoder emitted at least one packet during
\* the recording.
C13_DurationOnlyIfPacketsEmitted ==
    IsRecStop(last)
    => \A i \in DOMAIN last.trace:
           IsVideoDuration(last.trace, i) => VideoPacketsEmitted(last)

\* position i of the trace t is a call that makes the audio stream part of
\* the recording: on the audio encoder, or on the muxer for the audio stream
IsAudioCall(t, i) ==
    \/ t[i].to = "audioEncoder"
    \/ t[i].to = "muxer" /\ t[i].a = StreamAudio

\* C14 (as claimed): while recordAudio is false the start sequence registers
\* no audio stream with the muxer and does not start the audio encoder, and
\* no audio packet is forwarded to the audio encoder.
C14_NoAudioWhenDisabled ==
    (~rec.m_recordAudio /\ (IsStart(last) \/ last.op = "Recording::iStream"))
    => \A i \in DOMAIN last.trace: ~IsAudioCall(last.trace, i)

\* the children the start sequence in the trace t set to Playing
StartedChildren(t) ==
    {c \in {"muxer", "videoEncoder", "audioEncoder"}:
        \E i \in DOMAIN t: /\ t[i].to = c
                           /\ t[i].f = "setState"
                           /\ t[i].a = ElementStatePlaying}

\* C15 (as claimed): the encoder and muxer objects that a start sets going
\* are not objects that took part in the recording before it.
C15_FreshChildrenPerRecording ==
    IsStart(last) => StartedChildren(last.trace) \cap last.hist.used = {}

\* C17 (as claimed): when a recording without an audio stream is stopped,
\* the video duration registered with the muxer is the sum of the durations
\* of the frames given to the video encoder during that recording.
C17_VideoDurationIsSumOfFrames ==
    (IsRecStop(last) /\ last.trace # <<>> /\ ~rec.m_audioEncoder)
    => /\ \A i \in DOMAIN last.trace:
              IsVideoDuration(last.trace, i)
              => last.trace[i].r = last.hist.vFrames
       /\ last.hist.vFrames > 0
          => \E i \in DOMAIN last.trace: IsVideoDuration(last.trace, i)

(***************************************************************************)
(* Claims about the packets of the encoder element (Spec).                 *)
(***************************************************************************)
\* the call c dequeued an output buffer that is not configuration data
IsPacketBuffer(c) ==
    c.f = "dequeueOutputBuffer" /\ c.got \notin {"none", "config"}

\* the kinds of the non-configuration buffers the handler l dequeued, in order
DequeuedKinds(l) ==
    [i \in 1..Len(SelectSeq(l.calls, IsPacketBuffer)) |->
        SelectSeq(l.calls, IsPacketBuffer)[i].got]

\* the kinds of the packets the handler l emitted, in order
EmittedKinds(l) == [i \in 1..Len(l.out) |-> l.out[i].kind]

\* C16: in the drain of encodeFrame and in the drain of uninit every
\* dequeued output buffer that is not flagged as configuration data yields
\* exactly one emitted packet, in the order of the dequeues and the
\* end-of-stream buffer included, and a configuration buffer yields none.
C16_OnePacketPerNonConfigBuffer ==
    EmittedKinds(last) = DequeuedKinds(last)

\* C16 witness: a stop whose drain dequeued the end-of-stream buffer and
\* emitted its packet.
C16_Witness ==
    /\ last.op = "setState"
    /\ last.arg = ElementStateNull
    /\ \E i \in DOMAIN last.calls: /\ last.calls[i].f = "dequeueOutputBuffer"
                                   /\ last.calls[i].got = "eos"
    /\ \E i \in DOMAIN last.out: last.out[i].kind = "eos"

(***************************************************************************)
(* A session of the encoder element on a provider that hands the time      *)
(* stamps on, with the history of its frames and packets kept (SpecPts).   *)
(***************************************************************************)
\* the frames given to encodeFrame, one after the other
RECURSIVE Feed(_, _)
Feed(s, frames) ==
    IF frames = <<>> THEN s
    ELSE Feed([s EXCEPT !.increasing = @ /\ Head(frames).src.pts > s.fed,
                        !.fed = Head(frames).src.pts],
              Tail(frames))

\* the packets emitted on oStream, one after the other
RECURSIVE Emit(_, _)
Emit(s, out) ==
    IF out = <<>> THEN s
    ELSE Emit([s EXCEPT !.ordered = @ /\ Head(out).pts >= s.emitted,
                        !.emitted = Head(out).pts],
              Tail(out))

\* the frames of env that iVideoStream gave to encodeFrame
EncodedFrames(r, env) == IF r.sig = <<>> THEN <<>> ELSE env.frames

InitPts ==
    /\ enc = setInputCaps(EncInit(TRUE), "capsA").enc
    /\ hw = [HwInit EXCEPT !.stamps = TRUE]
    /\ last = NoLast
    /\ sess = NoSession
    /\ cat = NoCatalog
    /\ calc = NoCalc
    /\ IdleThreads
    /\ IdleRecording

\* setState(state) on the element; a session begins when a start succeeds
PtsSetState ==
    \E state \in ElementState: \E env \in SetStateEnv(enc, hw, state):
        \E r \in {setState(enc, hw, state, env)}:
        /\ enc' = r.enc
        /\ hw' = r.hw
        /\ sess' = IF enc.state = ElementStateNull /\ r.ret
                   THEN NoSession ELSE Emit(sess, r.out)
        /\ last' = IF state = ElementStateNull
                   THEN StopDone("setState", state, r, r.ret, enc.state)
                   ELSE Done("setState", state, r, r.ret, enc.state)
        /\ UNCHANGED <<threadVars, recVars, cat, calc>>

\* iVideoStream(packet) on the element
PtsIVideoStream ==
    \E env \in StreamEnv(enc, hw):
        \E r \in {iVideoStream(enc, hw, env)}:
        /\ enc' = r.enc
        /\ hw' = r.hw
        /\ sess' = Emit(Feed(sess, EncodedFrames(r, env)), r.out)
        /\ last' = Done("iVideoStream", "", r, FALSE, enc.state)
        /\ UNCHANGED <<threadVars, recVars, cat, calc>>

NextPts == PtsSetState \/ PtsIVideoStream

SpecPts == InitPts /\ [][NextPts]_vars

\* C20 (as claimed): in a session fed frames with strictly increasing pts
\* the pts of the emitted packets, over all encodes and the drain of the
\* stop, never goes down.
C20_PacketPtsNonDecreasing == sess.increasing => sess.ordered

(***************************************************************************)
(* The codec catalog (SpecCat): elements are built one after the other,    *)
(* each listing the codecs the hardware offers, while the hardware's offer *)
(* changes; the catalog of the element built last is queried.              *)
(***************************************************************************)
\* a lookup that never finds an entry
Memoized_Never(memo, mimeType) == FALSE

\* isAvailable: the search of ndkmediaVideoEncAvailableCodecs finds mimeType
Memoized(memo, mimeType) == \E i \in DOMAIN memo: memo[i].mimeType = mimeType

\* the entry the search stops at
MemoEntry(memo, mimeType) ==
    memo[CHOOSE i \in DOMAIN memo:
             /\ memo[i].mimeType = mimeType
             /\ \A j \in 1..(i - 1): memo[j].mimeType # mimeType]

\* isAvailable past the search: a test encoder is created (and deleted if it
\* was created), and the answer is stored in the next free entry
probe(c, mimeType) ==
    [cat |-> [c EXCEPT !.memo = Append(@, [mimeType |-> mimeType,
                                          isAvailable |-> c.avail[mimeType]]),
                       !.probes[mimeType] = @ + 1,
                       !.first[mimeType] = IF c.probes[mimeType] = 0
                                           THEN c.avail[mimeType] ELSE @],
     ret |-> c.avail[mimeType]]

isAvailable(c, mimeType) ==
    IF Memoized(c.memo, mimeType)
    THEN [cat |-> c, ret |-> MemoEntry(c.memo, mimeType).isAvailable]
    ELSE probe(c, mimeType)

\* a listing that takes every codec of the table
Lists_All(available) == TRUE

\* listCodecs: `if (!this->isAvailable(codec->mimeType)) continue;`
Lists(available) == available

\* listCodecs from the table entry i on, after `codecs` were listed
RECURSIVE listFrom(_, _, _, _)
listNext(r, codecs, calls, i) ==
    listFrom(r.cat,
             IF Lists(r.ret) THEN Append(codecs, NDKMediaCodecsTable[i])
             ELSE codecs,
             Append(calls, [f |-> "isAvailable",
                            h |-> NDKMediaCodecsTable[i].mimeType,
                            got |-> r.ret]),
             i + 1)

listFrom(c, codecs, calls, i) ==
    IF i > Len(NDKMediaCodecsTable)
    THEN [cat |-> [c EXCEPT !.m_codecs = codecs, !.built = TRUE],
          calls |-> calls]
    ELSE listNext(isAvailable(c, NDKMediaCodecsTable[i].mimeType),
                  codecs, calls, i)

listCodecs(c) == listFrom(c, <<>>, <<>>, 1)

\* the entry of m_codecs std::find_if stops at, or none
Listed(c, codec) == \E i \in DOMAIN c.m_codecs: c.m_codecs[i].name = codec

ListedEntry(c, codec) ==
    c.m_codecs[CHOOSE i \in DOMAIN c.m_codecs:
                   /\ c.m_codecs[i].name = codec
                   /\ \A j \in 1..(i - 1): c.m_codecs[j].name # codec]

codecs(c) == [i \in DOMAIN c.m_codecs |-> c.m_codecs[i].name]

codecID(c, codec) ==
    IF Listed(c, codec) THEN ListedEntry(c, codec).codecID
    ELSE VideoCodecID_unknown

codecDescription(c, codec) ==
    IF Listed(c, codec) THEN ListedEntry(c, codec).description ELSE ""

\* the names a caller asks about: those of the table and an unknown one
CodecNames ==
    {NDKMediaCodecsTable[i].name : i \in DOMAIN NDKMediaCodecsTable}
    \cup {"nocodec"}

InitCat ==
    /\ enc = EncInit(TRUE)
    /\ hw = HwInit
    /\ last = NoLast
    /\ sess = NoSession
    /\ cat = NoCatalog
    /\ calc = NoCalc
    /\ IdleThreads
    /\ IdleRecording

CatUnchanged == UNCHANGED <<enc, hw, threadVars, recVars, sess, calc>>

\* the hardware starts or stops offering a MIME type
CatHwChange ==
    /\ \E m \in MimeTypes: cat' = [cat EXCEPT !.avail[m] = ~@]
    /\ last' = [NoLast EXCEPT !.op = "hardware"]
    /\ CatUnchanged

\* NDKMediaCodecs::codecs(): the names of the static table, in its order
NDKMediaCodecs_codecs ==
    [i \in DOMAIN NDKMediaCodecsTable |-> NDKMediaCodecsTable[i].name]

\* QStringList::value(0): the first name, or the empty string
DefaultCodec ==
    IF NDKMediaCodecs_codecs = <<>> THEN "" ELSE NDKMediaCodecs_codecs[1]

\* the constructor of an element: listCodecs fills its m_codecs, then the
\* codec is set to the first name of the static table
CatNew ==
    /\ \A m \in MimeTypes: cat.probes[m] < MaxProbes
    /\ \E r \in {listCodecs(cat)}:
        /\ cat' = r.cat
        /\ last' = [NoLast EXCEPT !.op = "VideoEncoderNDKMediaElement",
                                  !.calls = r.calls]
    /\ enc' = [EncInit(TRUE) EXCEPT !.codec = DefaultCodec]
    /\ UNCHANGED <<hw, threadVars, recVars, sess, calc>>

\* codecs() on the element built last
CatCodecs ==
    /\ cat.built
    /\ last' = [NoLast EXCEPT !.op = "codecs", !.ret = codecs(cat)]
    /\ UNCHANGED cat
    /\ CatUnchanged

\* codecID(codec) on the element built last
CatCodecID ==
    /\ cat.built
    /\ \E codec \in CodecNames:
        last' = [NoLast EXCEPT !.op = "codecID", !.arg = codec,
                               !.ret = codecID(cat, codec)]
    /\ UNCHANGED cat
    /\ CatUnchanged

\* codecDescription(codec) on the element built last
CatCodecDescription ==
    /\ cat.built
    /\ \E codec \in CodecNames:
        last' = [NoLast EXCEPT !.op = "codecDescription", !.arg = codec,
                               !.ret = codecDescription(cat, codec)]
    /\ UNCHANGED cat
    /\ CatUnchanged

NextCat ==
    \/ CatHwChange \/ CatNew
    \/ CatCodecs \/ CatCodecID \/ CatCodecDescription

SpecCat == InitCat /\ [][NextCat]_vars

\* the call c of a handler is isAvailable
IsAvailabilityQuery(c) == c.f = "isAvailable"

\* C18: isAvailable is memoized per MIME type: over any sequence of
\* queries a test encoder is created at most once for a MIME type, and every
\* query returns what the first one for its MIME type returned, whatever
\* the hardware would answer now.
C18_ProbedOncePerMimeType ==
    /\ \A m \in MimeTypes: cat.probes[m] <= 1
    /\ \A i \in DOMAIN last.calls:
           IsAvailabilityQuery(last.calls[i])
           => last.calls[i].got = cat.first[last.calls[i].h]

\* C18 witness: an element was built when the hardware had stopped offering
\* a MIME type it offered at the first query, and the query for that type
\* still answered true without a second probe.
C18_Witness ==
    /\ last.op = "VideoEncoderNDKMediaElement"
    /\ \E i \in DOMAIN last.calls:
        /\ IsAvailabilityQuery(last.calls[i])
        /\ last.calls[i].got = TRUE
        /\ cat.avail[last.calls[i].h] = FALSE
        /\ cat.probes[last.calls[i].h] = 1

\* isAvailable reports the table entry's MIME type as available
ReportedAvailable(entry) == cat.first[entry.mimeType] = TRUE

\* the table's codecs that are reported as available, in the table's order
AvailableCodecs == SelectSeq(NDKMediaCodecsTable, ReportedAvailable)

\* the name is one of a codec reported as available
IsAvailableCodec(codec) ==
    \E i \in DOMAIN AvailableCodecs: AvailableCodecs[i].name = codec

\* C19: the catalog of an element is exactly the codecs of the static table
\* whose MIME type is reported as available, in the table's order, and so is
\* what codecs() returns; codecID() and codecDescription() of an available
\* codec return the table's values, and of any other name the unknown id and
\* the empty description, with no error raised.
C19_CatalogIsAvailableSubsequence ==
    cat.built =>
        /\ cat.m_codecs = AvailableCodecs
        /\ last.op = "codecs" =>
               last.ret = [i \in DOMAIN AvailableCodecs |->
                               AvailableCodecs[i].name]
        /\ last.op = "codecID" =>
               last.ret = IF IsAvailableCodec(last.arg)
                          THEN byName(last.arg).codecID
                          ELSE VideoCodecID_unknown
        /\ last.op = "codecDescription" =>
               last.ret = IF IsAvailableCodec(last.arg)
                          THEN byName(last.arg).description
                          ELSE ""
        /\ last.op \in {"codecs", "codecID", "codecDescription"} =>
               last.log = NoLast.log

\* C19 witness: the catalog holds some codecs of the table and lacks others,
\* and codecID() was asked about one of the table that it lacks.
C19_Witness ==
    /\ cat.built
    /\ Len(cat.m_codecs) \in 2..(Len(NDKMediaCodecsTable) - 1)
    /\ cat.m_codecs[1].name # NDKMediaCodecsTable[1].name
    /\ last.op = "codecID"
    /\ last.arg \in CodecNames \ {"nocodec"}
    /\ ~IsAvailableCodec(last.arg)
    /\ last.ret = VideoCodecID_unknown

(***************************************************************************)
(* Claims about the drains and the frames of the encoder element (Spec).   *)
(***************************************************************************)
\* the call c dequeued an output buffer (bufferIndex >= 0)
IsDequeuedBuffer(c) == c.f = "dequeueOutputBuffer" /\ c.got # "none"

\* the call c gave an output buffer back to the hardware
IsRelease(c) == c.f = "releaseOutputBuffer"

\* C21 (as claimed): every output buffer a handler dequeues, configuration
\* buffers included, is released: each handler makes as many
\* releaseOutputBuffer calls as it dequeued buffers, and after iVideoStream
\* returns the session holds no dequeued buffer it has not released.
C21_EveryDequeuedBufferReleased ==
    /\ Len(SelectSeq(last.calls, IsDequeuedBuffer))
       = Len(SelectSeq(last.calls, IsRelease))
    /\ last.op = "iVideoStream" => hw.unreleased = 0

(***************************************************************************)
(* The stop of a session step by step (SpecStop): setState(Null) on a      *)
(* started element runs uninit() one hardware call at a time, so that the  *)
(* drain loop `while (!eos)` is a loop of the model too. Starts, pauses    *)
(* and frames are whole handlers, taken while no stop is running.          *)
(***************************************************************************)
\* a loop that dequeues again after a time-out
TimedOutBreaks_Retry(answered) == FALSE

\* uninit's drain: `if (bufferIndex < 0) break;`
TimedOutBreaks(answered) == ~answered

\* uninit's drain: `while (!eos)`, eos being set for the buffer just handled
LoopEnds(info) == info.kind = "eos"

\* one iteration of uninit's drain that dequeued the first pending buffer
drainOne(e, h) ==
    [hw    |-> [h EXCEPT !.pending = Tail(@),
                         !.unreleased = @ + SkippedCount(<< Head(h.pending) >>)],
     calls |-> DrainCalls(<< Head(h.pending) >>, e.m_codec),
     out   |-> DrainPackets(e, << Head(h.pending) >>)]

InitStop ==
    /\ enc = setInputCaps(EncInit(TRUE), "capsA").enc
    /\ hw = HwInit
    /\ last = NoLast
    /\ sess = NoSession
    /\ cat = NoCatalog
    /\ calc = NoCalc
    /\ IdleThreads
    /\ IdleRecording

StopUnchanged == UNCHANGED <<pcP, mutex, recVars, sess, cat, calc>>

\* setState(Paused) or setState(Playing) on the element
S_SetState ==
    /\ pcC = "idle"
    /\ \E state \in ElementState \ {ElementStateNull}:
        \E env \in SetStateEnv(enc, hw, state):
        \E r \in {setState(enc, hw, state, env)}:
        /\ enc' = r.enc
        /\ hw' = r.hw
        /\ last' = Done("setState", state, r, r.ret, enc.state)
    /\ UNCHANGED pcC
    /\ StopUnchanged

\* iVideoStream(packet) on the element
S_IVideoStream ==
    /\ pcC = "idle"
    /\ \E env \in StreamEnv(enc, hw):
        \E r \in {iVideoStream(enc, hw, env)}:
        /\ enc' = r.enc
        /\ hw' = r.hw
        /\ last' = Done("iVideoStream", "", r, FALSE, enc.state)
    /\ UNCHANGED pcC
    /\ StopUnchanged

\* setState(Null) on a Paused or Playing element enters uninit(): the early
\* return, or m_initialized = false
S_Call ==
    /\ pcC = "idle"
    /\ enc.state # ElementStateNull
    /\ enc' = [enc EXCEPT !.m_initialized = FALSE]
    /\ pcC' = IF UninitSkips(enc) THEN "base"
              ELSE IF enc.m_codec = NULL THEN "clear" ELSE "queue"
    /\ last' = Done("uninit", "", NoEffect(enc, hw), enc.m_initialized, enc.state)
    /\ UNCHANGED hw
    /\ StopUnchanged

\* AMediaCodec_dequeueInputBuffer and, with a buffer, the end-of-stream marker
S_Queue ==
    /\ pcC = "queue"
    /\ \E willing \in BOOLEAN:
        \E q \in {queueEndOfStream(enc, hw, [inputAvail |-> willing])}:
        /\ hw' = q.hw
        /\ last' = [last EXCEPT !.calls = q.calls]
    /\ pcC' = "drain"
    /\ UNCHANGED enc
    /\ StopUnchanged

\* one pass of `while (!eos)`: the dequeue times out or returns a buffer
S_Drain ==
    /\ pcC = "drain"
    /\ \E answered \in IF hw.pending = <<>> THEN {FALSE} ELSE BOOLEAN:
        IF ~answered
        THEN /\ pcC' = IF TimedOutBreaks(answered) THEN "stop" ELSE "drain"
             /\ last' = [last EXCEPT !.calls =
                            Append(@, Dequeued(enc.m_codec, "none"))]
             /\ UNCHANGED hw
        ELSE \E d \in {drainOne(enc, hw)}:
             /\ hw' = d.hw
             /\ last' = [last EXCEPT !.calls = @ \o d.calls, !.out = @ \o d.out]
             /\ pcC' = IF ~SkipsBuffer(Head(hw.pending))
                          /\ LoopEnds(Head(hw.pending))
                       THEN "stop" ELSE "drain"
    /\ UNCHANGED enc
    /\ StopUnchanged

\* AMediaCodec_stop
S_Stop ==
    /\ pcC = "stop"
    /\ hw' = [hw EXCEPT !.started = @ \ {enc.m_codec}]
    /\ last' = [last EXCEPT !.calls = Append(@, Call("stop", enc.m_codec))]
    /\ pcC' = "clear"
    /\ UNCHANGED enc
    /\ StopUnchanged

\* m_mediaFormat = {}, AMediaCodec_delete, m_codec = nullptr, m_paused = false
S_Clear ==
    /\ pcC = "clear"
    /\ enc' = [enc EXCEPT !.m_mediaFormat = NULL, !.m_codec = NULL,
                          !.m_paused = FALSE]
    /\ hw' = IF enc.m_codec = NULL
             THEN AMediaFormat_release(hw, enc.m_mediaFormat)
             ELSE AMediaCodec_delete(AMediaFormat_release(hw, enc.m_mediaFormat),
                                     enc.m_codec)
    /\ last' = IF enc.m_codec = NULL THEN last
               ELSE [last EXCEPT !.calls = Append(@, Call("delete", enc.m_codec))]
    /\ pcC' = "base"
    /\ StopUnchanged

\* return AkElement::setState(ElementStateNull)
S_Base ==
    /\ pcC = "base"
    /\ enc' = AkElement_setState(enc, ElementStateNull).enc
    /\ pcC' = "idle"
    /\ UNCHANGED <<hw, last>>
    /\ StopUnchanged

\* the steps of a stop that is under way
StopStep == S_Queue \/ S_Drain \/ S_Stop \/ S_Clear \/ S_Base

NextStop == S_SetState \/ S_IVideoStream \/ S_Call \/ StopStep

\* the thread that runs setState(Null) keeps running, and every hardware
\* call of uninit returns within PROCESSING_TIMEOUT
SpecStop == InitStop /\ [][NextStop]_vars /\ WF_vars(StopStep)

\* the end-of-stream markers the stop queued
IsEosQueued(c) == c.f = "queueInputBuffer:EOS"

\* the stop's dequeueInputBuffer returned a buffer
InputObtained(l) == l.calls # <<>> /\ l.calls[1].got

\* the dequeue at i of the calls cs ended the drain: a time-out, or the
\* end-of-stream buffer
EndsDrain(cs, i) ==
    cs[i].f = "dequeueOutputBuffer" /\ cs[i].got \in {"none", "eos"}

\* the stop of a started session has returned from uninit()
StopReturned == pcC = "base" /\ last.op = "uninit" /\ last.ret

\* what C22 says of a stop that has returned
StopLeftClean ==
    /\ Len(SelectSeq(last.calls, IsEosQueued))
       = IF InputObtained(last) THEN 1 ELSE 0
    /\ InputObtained(last) => IsEosQueued(last.calls[2])
    /\ \E i \in DOMAIN last.calls:
        /\ EndsDrain(last.calls, i)
        /\ \A j \in DOMAIN last.calls:
               last.calls[j].f = "dequeueOutputBuffer"
               => /\ j <= i
                  /\ (EndsDrain(last.calls, j) => j = i)
    /\ SubSeq(last.calls, Len(last.calls) - 1, Len(last.calls))
       = << Call("stop", last.calls[1].h), Call("delete", last.calls[1].h) >>
    /\ hw.started = {}
    /\ last.calls[1].h \notin hw.live
    /\ enc.m_codec = NULL
    /\ enc.m_mediaFormat = NULL
    /\ ~enc.m_initialized

\* C22: a stop of a started session queues one end-of-stream marker when its
\* dequeueInputBuffer returned a buffer and none otherwise, drains until the
\* end-of-stream buffer was handled or a dequeue timed out and no further,
\* and always comes to its end, with the hardware stopped, the handle and
\* the format deleted and m_codec and m_mediaFormat cleared.
C22_StopDrainsAndTerminates ==
    /\ [](StopReturned => StopLeftClean)
    /\ (pcC # "idle") ~> (pcC = "idle")

\* C22 witness: a stop has returned that queued the end-of-stream marker,
\* dequeued the end-of-stream buffer and emitted its packet.
C22_Witness ==
    /\ StopReturned
    /\ InputObtained(last)
    /\ \E i \in DOMAIN last.calls:
        /\ last.calls[i].f = "dequeueOutputBuffer"
        /\ last.calls[i].got = "eos"
    /\ \E i \in DOMAIN last.out: last.out[i].kind = "eos"

(***************************************************************************)
(* Claims about one frame in encodeFrame (Spec).                           *)
(***************************************************************************)
\* the call c is a dequeueInputBuffer that returned no buffer
IsInputTimeout(c) == c.f = "dequeueInputBuffer" /\ ~c.got

\* the call c is a dequeueInputBuffer that returned a buffer
IsInputObtained(c) == c.f = "dequeueInputBuffer" /\ c.got

\* the call c queues an input buffer
IsQueueInput(c) == c.f \in {"queueInputBuffer", "queueInputBuffer:EOS"}

\* the handler l had a frame for which no input buffer came
DroppedFrame(l) ==
    l.op = "iVideoStream" /\ \E i \in DOMAIN l.calls: IsInputTimeout(l.calls[i])

\* C23: when dequeueInputBuffer returns no buffer in encodeFrame the frame
\* is dropped and the session is unharmed: an input buffer is queued only
\* for the dequeues that returned one, nothing is logged, the output drain
\* runs right after the time-out, and the element keeps its state, its codec
\* handle (still started) and its flags, so that the next frame is let in.
C23_InputTimeoutDropsFrame ==
    [][DroppedFrame(last') =>
        /\ Len(SelectSeq(last'.calls, IsQueueInput))
           = Len(SelectSeq(last'.calls, IsInputObtained))
        /\ \A i \in DOMAIN last'.calls:
               IsInputTimeout(last'.calls[i])
               => /\ i < Len(last'.calls)
                  /\ last'.calls[i + 1].f = "dequeueOutputBuffer"
        /\ last'.log = ""
        /\ enc' = [enc EXCEPT !.m_encodedTimePts = enc'.m_encodedTimePts]
        /\ enc'.m_codec \in hw'.started
        /\ hw'.live = hw.live
        /\ ~StreamSkips(enc')]_vars

\* C23 witness: a frame found no input buffer and the drain that followed
\* emitted a packet.
C23_Witness ==
    /\ DroppedFrame(last)
    /\ last.out # <<>>
    /\ enc.m_initialized

\* the handler l gave frames to encodeFrame
EncodedSome(l) == l.op = "iVideoStream" /\ l.arg # <<>>

\* C24: after each frame given to encodeFrame, submitted or dropped and
\* whatever the drain emitted, there is one encodedTimePtsChanged signal
\* carrying the frame's pts + duration, and after the last frame
\* m_encodedTimePts is that frame's pts + duration.
C24_EncodedTimeIsPtsPlusDuration ==
    EncodedSome(last) =>
        /\ Len(last.sig) = Len(last.arg)
        /\ \A i \in DOMAIN last.arg:
               last.sig[i] = Signal("encodedTimePtsChanged",
                                    last.arg[i].pts + last.arg[i].duration)
        /\ enc.m_encodedTimePts
           = last.arg[Len(last.arg)].pts + last.arg[Len(last.arg)].duration

\* C24 witness: a frame with pts > 0 found no input buffer and its drain
\* emitted nothing.
C24_Witness ==
    /\ EncodedSome(last)
    /\ DroppedFrame(last)
    /\ last.out = <<>>
    /\ last.arg[1].pts > 0

(***************************************************************************)
(* The computations of init(), encodeFrame and sendFrame on numbers, each  *)
(* on its own (SpecCalc): the inputs are drawn at the start, a step runs   *)
(* one computation on them and keeps its result.                           *)
(***************************************************************************)
Max(a, b) == IF a > b THEN a ELSE b

\* init(): qMax(self->gop() * fps.num() / (1000 * fps.den()), 1), in
\* integers; gop() is in milliseconds
KeyFrameInterval(gop, fps) == Max((gop * fps.num) \div (1000 * fps.den), 1)

\* values of the gop property, in milliseconds
GopChoices == {0, 10, 50, 1000, 1500, 2000}

\* frame rates of the output caps
FpsChoices == {Frac(30, 1), Frac(25, 1), Frac(15, 2), Frac(30000, 1001)}

\* presentation time stamps of frames, in ticks of their time base
PtsChoices == {0, 1, 2, 45, 90}

\* time bases of frames
TimeBaseChoices == {Frac(1, 30), Frac(1, 90000), Frac(1, 1000), Frac(2, 25)}

\* presentation times of output buffers, in microseconds
TimeUsChoices == {0, 1000, 16667, 33333, 50000}

InitCalc ==
    /\ enc = EncInit(TRUE)
    /\ hw = HwInit
    /\ last = NoLast
    /\ sess = NoSession
    /\ cat = NoCatalog
    /\ calc \in [done: {"none"}, gop: GopChoices, fps: FpsChoices,
                 pts: PtsChoices, timeBase: TimeBaseChoices,
                 presentationTimeUs: TimeUsChoices]
    /\ IdleThreads
    /\ IdleRecording

CalcUnchanged == UNCHANGED <<enc, hw, last, threadVars, recVars, sess, cat>>

\* init() computes the key-frame interval for the format
CalcKeyFrameInterval ==
    /\ calc.done = "none"
    /\ calc' = [done |-> "KeyFrameInterval", gop |-> calc.gop, fps |-> calc.fps,
                ret |-> KeyFrameInterval(calc.gop, calc.fps)]
    /\ CalcUnchanged

\* a session as a start leaves it: caps set, every hardware call accepted
StartedSession ==
    init(setInputCaps(EncInit(TRUE), "capsA").enc, HwInit,
         [createOk |-> TRUE, configureOk |-> TRUE, startOk |-> TRUE,
          configFirst |-> FALSE, uninit |-> [inputAvail |-> FALSE, k |-> 0]])

\* encodeFrame on a started session, for a frame that gets an input buffer
CalcEncodeFrame ==
    /\ calc.done = "none"
    /\ calc' = [done |-> "encodeFrame", pts |-> calc.pts,
                timeBase |-> calc.timeBase,
                ret |-> encodeFrame(StartedSession.enc, StartedSession.hw,
                                    [pts |-> calc.pts, duration |-> 1,
                                     timeBase |-> calc.timeBase],
                                    [inputAvail |-> TRUE, k |-> 0]).calls]
    /\ CalcUnchanged

\* the output caps of a session whose input caps have the frame rate fps
OutputCapsAt(fps) ==
    [codec |-> StartedSession.enc.m_outputCaps.codec,
     caps |-> StartedSession.enc.m_outputCaps.caps, fps |-> fps]

\* sendFrame on a started session, for an output buffer of the hardware
CalcSendFrame ==
    /\ calc.done = "none"
    /\ calc' = [done |-> "sendFrame", fps |-> calc.fps,
                presentationTimeUs |-> calc.presentationTimeUs,
                ret |-> sendFrame([StartedSession.enc EXCEPT
                                      !.m_outputCaps = OutputCapsAt(calc.fps)],
                                  [kind |-> "data",
                                   presentationTimeUs |->
                                       calc.presentationTimeUs])]
    /\ CalcUnchanged

NextCalc == CalcKeyFrameInterval \/ CalcEncodeFrame \/ CalcSendFrame

SpecCalc == InitCalc /\ [][NextCalc]_vars

\* num / den rounded to the nearest integer, halves upwards
Round(num, den) ==
    IF 2 * (num % den) < den THEN num \div den ELSE (num \div den) + 1

\* C25 (as claimed): the key-frame interval init() configures is
\* round(gopMillis * fps / 1000), and at least 1, for every gopMillis >= 0
\* and every valid frame rate.
C25_KeyFrameIntervalIsRounded ==
    calc.done = "KeyFrameInterval"
    => calc.ret = Max(Round(calc.gop * calc.fps.num, 1000 * calc.fps.den), 1)

\* the call c queues a frame's input buffer
IsQueueFrame(c) == c.f = "queueInputBuffer"

\* C26: the input buffer encodeFrame queues for a frame carries the
\* presentation time round(1e6 * pts * timeBase) microseconds; for pts 90
\* and time base 1/90000 that is 1000.
C26_SubmittedTimeIsRoundedMicroseconds ==
    calc.done = "encodeFrame" =>
        /\ Len(SelectSeq(calc.ret, IsQueueFrame)) = 1
        /\ \A i \in DOMAIN calc.ret:
               IsQueueFrame(calc.ret[i])
               => calc.ret[i].presentationTimeUs
                  = Round(1000000 * calc.pts * calc.timeBase.num,
                          calc.timeBase.den)
        /\ (calc.pts = 90 /\ calc.timeBase = Frac(1, 90000))
           => \E i \in DOMAIN calc.ret:
                  /\ IsQueueFrame(calc.ret[i])
                  /\ calc.ret[i].presentationTimeUs = 1000

\* C26 witness: the frame with pts 90 and time base 1/90000 was submitted.
C26_Witness ==
    /\ calc.done = "encodeFrame"
    /\ calc.pts = 90
    /\ calc.timeBase = Frac(1, 90000)
    /\ \E i \in DOMAIN calc.ret: IsQueueFrame(calc.ret[i])

\* C27: a packet made by sendFrame has the presentation time
\* round(presentationTimeUs * fps / 1e6), fps being the frame rate of the
\* output caps, a decoding time equal to it, the duration 1 and the time
\* base 1 / fps.
C27_PacketTimesFromHardwareTime ==
    calc.done = "sendFrame" =>
        /\ calc.ret.pts = Round(calc.presentationTimeUs * calc.fps.num,
                                1000000 * calc.fps.den)
        /\ calc.ret.dts = calc.ret.pts
        /\ calc.ret.duration = 1
        /\ calc.ret.timeBase = Frac(calc.fps.den, calc.fps.num)

\* C27 witness: a buffer stamped 50000 microseconds at 30000/1001 frames per
\* second, whose quotient 1.4985 is rounded down to 1.
C27_Witness ==
    /\ calc.done = "sendFrame"
    /\ calc.presentationTimeUs = 50000
    /\ calc.fps = Frac(30000, 1001)
    /\ calc.ret.pts = 1

(***************************************************************************)
(* writeFrame on its own (SpecFrame): a frame of one of the pixel formats  *)
(* of PixelFormatsTable is laid out in an input buffer, with the stride    *)
(* and the slice height that init() put in the format for the caps it saw  *)
(* (the frame's own, or other ones when the input caps changed since).     *)
(* A byte of the frame is known by its plane, its line in the plane and    *)
(* its place in the line; the buffer is the bytes written, by offset.      *)
(***************************************************************************)
\* PixelFormatsTable::formats()
PixelFormats == {"yuv420p", "yuv422p", "yuv444p"}

\* x >> n
ShiftRight(x, n) == x \div (2 ^ n)

\* packet.planes()
planes(format) == 3

\* packet.widthDiv(plane)
widthDiv(format, plane) ==
    IF plane > 0 /\ format \in {"yuv420p", "yuv422p"} THEN 1 ELSE 0

\* packet.heightDiv(plane)
heightDiv(format, plane) == IF plane > 0 /\ format = "yuv420p" THEN 1 ELSE 0

\* packet.lineSize(plane): the bytes of a line of the plane, one per sample,
\* padded to a multiple of the packet's alignment
lineSize(f, plane) ==
    f.align * ((ShiftRight(f.width + (2 ^ widthDiv(f.format, plane)) - 1,
                           widthDiv(f.format, plane))
                + f.align - 1) \div f.align)

\* packet.constLine(plane, y): the line of the plane that holds row y of the
\* frame
constLine(f, plane, y) ==
    [c \in 0..(lineSize(f, plane) - 1) |->
        << plane, ShiftRight(y, heightDiv(f.format, plane)), c >>]

\* init(): AMEDIAFORMAT_KEY_STRIDE for caps of the given width; a sample of
\* plane 0 has 8 bits
StrideKey(width) ==
    IF width % 2 = 1 THEN (8 * (width + 1)) \div 8 ELSE (8 * width) \div 8

\* init(): FORMAT_KEY_SLICE_HEIGHT for caps of the given height
SliceHeightKey(height) == height

\* writeFrame: `if (sliceHeight < packet.caps().height()) sliceHeight = ...`
sliceHeight(f) == IF f.sliceHeight < f.height THEN f.height ELSE f.sliceHeight

\* writeFrame: oLineSize of a plane
oLineSize(f, plane) ==
    IF planes(f.format) > 1 THEN ShiftRight(f.stride, widthDiv(f.format, plane))
    ELSE f.stride

\* writeFrame: qMin<size_t>(iLineSize, oLineSize)
copySize(f, plane) == Min(lineSize(f, plane), oLineSize(f, plane))

NoBuffer == [mem |-> [o \in {} |-> << >>], writes |-> {}]

\* memcpy(buffer + dst, line, n), done for the plane
memcpy(buf, dst, line, n, plane) ==
    [mem    |-> [o \in dst..(dst + n - 1) |-> line[o - dst]] @@ buf.mem,
     writes |-> buf.writes \cup {[plane |-> plane, off |-> o]
                                 : o \in dst..(dst + n - 1)}]

\* writeFrame's loop over the rows of a plane, from row y on
RECURSIVE writeRows(_, _, _, _, _)
writeRows(buf, f, plane, oData, y) ==
    IF y >= f.height THEN buf
    ELSE writeRows(memcpy(buf,
                          oData + ShiftRight(y, heightDiv(f.format, plane))
                                  * oLineSize(f, plane),
                          constLine(f, plane, y), copySize(f, plane), plane),
                   f, plane, oData, y + 1)

\* writeFrame's loop over the planes, from the plane given on
RECURSIVE writePlanes(_, _, _, _)
writePlanes(buf, f, plane, oData) ==
    IF plane >= planes(f.format) THEN buf
    ELSE writePlanes(writeRows(buf, f, plane, oData, 0), f, plane + 1,
                     oData + oLineSize(f, plane)
                             * ShiftRight(sliceHeight(f),
                                          heightDiv(f.format, plane)))

writeFrame(f) == writePlanes(NoBuffer, f, 0, 0)

\* alignments of the lines of a packet
AlignChoices == {1, 4}

\* the frame and the format's keys: the caps init() saw have fmtWidth and
\* fmtHeight
FrameChoices ==
    { [format |-> x[1], width |-> x[2], height |-> x[3], align |-> x[4],
       stride |-> StrideKey(x[5]), sliceHeight |-> SliceHeightKey(x[6])]
      : x \in PixelFormats \X (1..MaxWidth) \X (1..MaxHeight) \X AlignChoices
              \X (1..MaxWidth) \X (1..MaxHeight) }

\* the bytes of a frame laid out in planes with the stride and the slice
\* height the hardware was configured with, the slice height rounded up to
\* a multiple of sliceAlign
ConfiguredSize(f, sliceAlign, plane) ==
    ShiftRight(f.stride, widthDiv(f.format, plane))
    * ShiftRight(sliceAlign * ((f.sliceHeight + sliceAlign - 1) \div sliceAlign),
                 heightDiv(f.format, plane))

\* AMediaCodec_getInputBuffer's out_size: the hardware sizes its input
\* buffers for the format it was configured with, with slice heights as
\* they are or rounded up to even
BufferSizes(f) ==
    { ConfiguredSize(f, a, 0) + ConfiguredSize(f, a, 1) + ConfiguredSize(f, a, 2)
      : a \in {1, 2} }

InitFrame ==
    /\ enc = EncInit(TRUE)
    /\ hw = HwInit
    /\ last = NoLast
    /\ sess = NoSession
    /\ cat = NoCatalog
    /\ \E f \in FrameChoices:
        \E b \in BufferSizes(f):
            calc = [done |-> "none", frame |-> f, bufferSize |-> b]
    /\ IdleThreads
    /\ IdleRecording

\* encodeFrame: this->writeFrame(src, buffer, bufferSize)
FrameWrite ==
    /\ calc.done = "none"
    /\ calc' = [done |-> "writeFrame", frame |-> calc.frame,
                bufferSize |-> calc.bufferSize,
                ret |-> writeFrame(calc.frame)]
    /\ CalcUnchanged

NextFrame == FrameWrite

SpecFrame == InitFrame /\ [][NextFrame]_vars

\* where the region of a plane starts in the buffer: past the regions of
\* the planes before it
RECURSIVE PlaneStart(_, _)
PlaneStart(f, plane) ==
    IF plane = 0 THEN 0
    ELSE PlaneStart(f, plane - 1)
         + oLineSize(f, plane - 1)
           * ShiftRight(sliceHeight(f), heightDiv(f.format, plane - 1))

\* the size of the region of a plane
PlaneSize(f, plane) ==
    oLineSize(f, plane) * ShiftRight(sliceHeight(f), heightDiv(f.format, plane))

\* row y of the frame can be read back from the plane's region: the first
\* min(source line size, destination line size) bytes of its line are at
\* destination row y >> heightDiv
ReadsBack(f, mem, plane, y) ==
    \A c \in 0..(copySize(f, plane) - 1):
        LET o == PlaneStart(f, plane)
                 + ShiftRight(y, heightDiv(f.format, plane)) * oLineSize(f, plane)
                 + c
        IN o \in DOMAIN mem /\ mem[o] = constLine(f, plane, y)[c]

\* C28 (as claimed): after writeFrame, for every pixel format of the table
\* and every frame size, every row y in [0, height) of every plane reads
\* back unchanged from destination row y >> heightDiv of the plane's region.
C28_EveryRowReadsBack ==
    calc.done = "writeFrame" =>
        \A plane \in 0..(planes(calc.frame.format) - 1):
            \A y \in 0..(calc.frame.height - 1):
                ReadsBack(calc.frame, calc.ret.mem, plane, y)

\* the byte w was written inside the region of its plane
InsideRegion(f, w) ==
    /\ w.off >= PlaneStart(f, w.plane)
    /\ w.off < PlaneStart(f, w.plane) + PlaneSize(f, w.plane)

\* C29 (as claimed): every byte writeFrame writes for a plane lies inside
\* the plane's region [start, start + oLineSize * (sliceHeight >> heightDiv)),
\* and no byte of the buffer is written for two planes, for every frame
\* height from 1 on, odd ones included, the slice height being clamped to
\* at least the frame's height.
C29_PlanesStayInTheirRegions ==
    calc.done = "writeFrame" =>
        /\ \A w \in calc.ret.writes: InsideRegion(calc.frame, w)
        /\ \A v, w \in calc.ret.writes: v.off = w.off => v.plane = w.plane

\* C36 (as claimed): every byte writeFrame writes is at an offset below
\* the bufferSize the hardware reported for the input buffer, for every
\* frame size, stride and slice height.
C36_WritesStayInsideBuffer ==
    calc.done = "writeFrame" =>
        \A w \in calc.ret.writes: w.off < calc.bufferSize

(***************************************************************************)
(* The output caps alone (SpecCaps): input caps and codec names are set on *)
(* an element, and calc holds the output caps of m_videoConverter. The     *)
(* input caps include two that are converted to the same caps.             *)
(***************************************************************************)
InputCapsAll == InputCapsChoices \cup {"capsA0", "capsB"}

InitCaps ==
    /\ \E fps \in BOOLEAN: enc = EncInit(fps)
    /\ hw = HwInit
    /\ last = NoLast
    /\ sess = NoSession
    /\ cat = NoCatalog
    /\ calc = [done |-> "none", m_videoConverter |-> NoCaps]
    /\ IdleThreads
    /\ IdleRecording

\* AkVideoEncoder::setInputCaps(caps), with the converter
CapsSetInputCaps ==
    \E caps \in InputCapsAll:
        \E r \in {setInputCaps(enc, caps)}:
        /\ caps # enc.inputCaps
        /\ enc' = r.enc
        /\ calc' = [done |-> "setInputCaps",
                    m_videoConverter |->
                        setOutputCaps([enc EXCEPT !.inputCaps = caps],
                                      calc.m_videoConverter)]
        /\ last' = Done("setInputCaps", caps,
                        [NoEffect(enc, hw) EXCEPT !.sig = r.sig], FALSE, enc.state)
        /\ UNCHANGED <<hw, threadVars, recVars, sess, cat>>

\* AkVideoEncoder::setCodec(name): nothing is recomputed
CapsSetCodec ==
    \E name \in CodecChoices \cup {"vp9"}:
        /\ name # enc.codec
        /\ enc' = [enc EXCEPT !.codec = name]
        /\ last' = Done("setCodec", name, NoEffect(enc, hw), FALSE, enc.state)
        /\ UNCHANGED <<hw, threadVars, recVars, sess, cat, calc>>

NextCaps == CapsSetInputCaps \/ CapsSetCodec

SpecCaps == InitCaps /\ [][NextCaps]_vars

\* the step ran updateOutputCaps
Recomputed == last'.op = "setInputCaps"

\* C30: outputCapsChanged is emitted only when the recomputed output caps
\* differ by value from the stored ones, and then once, with the new caps;
\* a recomputation whose result equals the stored caps (the same caps again,
\* or the empty caps for invalid input caps or an unknown codec while the
\* stored caps are empty) emits nothing and changes nothing: the stored caps,
\* the converter's caps and every other field but the input caps just set
\* stay as they were.
C30_OutputCapsChangedOnlyOnDifference ==
    [][Recomputed =>
        /\ Len(last'.sig) <= 1
        /\ \A i \in DOMAIN last'.sig:
            /\ last'.sig[i] = Signal("outputCapsChanged", enc'.m_outputCaps)
            /\ enc'.m_outputCaps # enc.m_outputCaps
        /\ RecomputedOutputCaps(enc') = enc.m_outputCaps =>
            /\ last'.sig = <<>>
            /\ enc' = [enc EXCEPT !.inputCaps = enc'.inputCaps]
            /\ calc'.m_videoConverter = calc.m_videoConverter]_vars

\* input caps without a frame rate were set on an element that held caps of
\* the same size at 30/1: the recomputed caps equal the stored ones and
\* nothing was emitted
C30_Witness ==
    /\ last.op = "setInputCaps"
    /\ last.arg = "capsA0"
    /\ enc.m_outputCaps = [codec |-> "vp8", caps |-> "capsA"]
    /\ last.sig = <<>>

(***************************************************************************)
(* Pause and resume of the encoder element (Spec).                         *)
(***************************************************************************)
\* the step is setState(to) on an element in state from
IsTransition(from, to) ==
    /\ last'.op = "setState"
    /\ enc.state = from
    /\ last'.arg = to

\* C31: iVideoStream on an element in Paused makes no hardware call, emits
\* nothing and changes no field of the element or the hardware; and
\* setState from Playing to Paused or from Paused to Playing keeps m_codec,
\* m_mediaFormat, m_headers and m_encodedTimePts, leaves the hardware as it
\* was and makes no hardware call.
C31_PausedSuppressesEncode ==
    [][/\ (last'.op = "iVideoStream" /\ enc.state = ElementStatePaused)
          => /\ last'.calls = <<>>
             /\ last'.out = <<>>
             /\ last'.sig = <<>>
             /\ enc' = enc
             /\ hw' = hw
       /\ (\/ IsTransition(ElementStatePlaying, ElementStatePaused)
           \/ IsTransition(ElementStatePaused, ElementStatePlaying))
          => /\ last'.calls = <<>>
             /\ last'.out = <<>>
             /\ enc'.m_codec = enc.m_codec
             /\ enc'.m_mediaFormat = enc.m_mediaFormat
             /\ enc'.m_headers = enc.m_headers
             /\ enc'.m_encodedTimePts = enc.m_encodedTimePts
             /\ enc'.m_initialized = enc.m_initialized
             /\ hw' = hw]_vars

\* a frame was offered to a session that had encoded frames while Playing
\* and was paused since
C31_Witness ==
    /\ last.op = "iVideoStream"
    /\ enc.state = ElementStatePaused
    /\ enc.m_initialized
    /\ enc.m_fpsControl
    /\ enc.m_encodedTimePts > 0

\* the session holds a started codec handle and a format object
HoldsSession ==
    /\ enc.m_codec # NULL
    /\ enc.m_codec \in hw.started
    /\ enc.m_mediaFormat # NULL

\* C32: after every completed setState the session is initialised, with a
\* started codec handle and a format object, exactly when the state is
\* Paused or Playing; in Null it holds no codec handle and no format object;
\* and m_paused is set exactly when the state is Paused.
C32_SessionMatchesState ==
    last.op = "setState" =>
        /\ enc.m_initialized <=> enc.state \in {ElementStatePaused, ElementStatePlaying}
        /\ enc.m_initialized => HoldsSession
        /\ enc.state = ElementStateNull =>
            (enc.m_codec = NULL /\ enc.m_mediaFormat = NULL)
        /\ enc.m_paused <=> enc.state = ElementStatePaused

(***************************************************************************)
(* The children a recording is stopped with (SpecRec).                     *)
(***************************************************************************)
\* the video encoder and the muxer held when the history h was taken are
\* the ones the start sequence linked: neither was replaced since
HoldsStartedChildren(h) == h.vLinked

\* position i of the trace t is a call on a null pointer
IsNullCall(t, i) == t[i].to = "null"

\* C33 (as claimed): when a running recording is stopped, the video encoder
\* and the muxer the stop sequence works on are the ones the start sequence
\* started, and the stop sequence makes no call on a missing muxer.
C33_StopStopsStartedChildren ==
    (IsRecStop(last) /\ last.trace # <<>>)
    => /\ HoldsStartedChildren(last.hist)
       /\ \A i \in DOMAIN last.trace: ~IsNullCall(last.trace, i)

\* C34 (as claimed): an iStream call on an orchestrator in Paused calls no
\* child: no packet is handed to the video or the audio encoder, and no
\* packet of the video encoder goes into the muxer.
C34_PausedForwardsNothing ==
    (last.op = "Recording::iStream" /\ rec.m_state = ElementStatePaused)
    => last.trace = <<>>

(***************************************************************************)
(* The life of the format object behind the headers (SpecRec). m_headers   *)
(* holds the address of the format object, so the bytes stand for a live   *)
(* object only while that format object is in hw.fmtLive.                  *)
(***************************************************************************)
\* the trace t has a video encoder that was running and was stopped, and
\* after that a muxer that was running and was stopped
EncoderStoppedFirst(t) ==
    \E i, j \in DOMAIN t:
        /\ i < j
        /\ IsChildStop(t, i, "videoEncoder") /\ t[i].r
        /\ IsChildStop(t, j, "muxer") /\ t[j].r

\* C35 (as claimed): while the muxer is not in Null, the headers of the
\* video encoder identify a format object that is alive; and no stop
\* sequence stops a running video encoder, which releases its format
\* object, before it stops the running muxer.
C35_HeadersIdentifyLiveFormat ==
    /\ (rec.m_muxer /\ mux.state # ElementStateNull
        /\ enc.alive /\ enc.m_headers # NULL)
       => enc.m_headers \in hw.fmtLive
    /\ IsRecStop(last) => ~EncoderStoppedFirst(last.trace)

(***************************************************************************)
(* The encoded-time counter across recordings (SpecTake).                  *)
(***************************************************************************)
\* the start sequence in the trace t started the video encoder
VideoStarted(t) ==
    \E i \in DOMAIN t: /\ t[i].to = "videoEncoder"
                       /\ t[i].f = "setState"
                       /\ t[i].a \in Running
                       /\ t[i].r

\* C37 (as claimed): a start sequence that started the video encoder leaves
\* m_encodedTimePts at 0, and the value the orchestrator finds in
\* m_encodedTimePts when it has stopped the video encoder was set by a
\* frame of the recording that ends: it is above 0 only if a frame was
\* given to the encoder since the start.
C37_EncodedTimeNotCarriedOver ==
    /\ (IsStart(last) /\ VideoStarted(last.trace)) => enc.m_encodedTimePts = 0
    /\ (IsRecStop(last) /\ last.trace # <<>> /\ rec.m_videoEncoder)
       => (enc.m_encodedTimePts > 0 => last.hist.vFrames > 0)

(***************************************************************************)
(* Requests for the state the orchestrator is in (SpecRec).                *)
(***************************************************************************)
\* C38: Recording::setState asked for the state the orchestrator is in
\* returns false, calls no child (neither init() nor the stop sequence
\* runs), emits no stateChanged and leaves m_state, m_pause, m_isRecording,
\* every other field of the orchestrator, the children and the hardware as
\* they were.
C38_SameStateRequestIsNoOp ==
    [][(IsRecSetState(last') /\ last'.arg = rec.m_state)
       => /\ ~last'.ret
          /\ last'.trace = <<>>
          /\ last'.sig = <<>>
          /\ rec' = rec
          /\ enc' = enc
          /\ hw' = hw
          /\ mux' = mux
          /\ aenc' = aenc]_vars

\* Playing was requested of an orchestrator that was recording in Playing
C38_Witness ==
    /\ IsRecSetState(last)
    /\ last.before = ElementStatePlaying
    /\ last.arg = ElementStatePlaying
    /\ rec.m_state = ElementStatePlaying
    /\ rec.m_isRecording
    /\ ~last.ret

(***************************************************************************)
(* The codec an element is built with (SpecCat).                           *)
(***************************************************************************)
\* C39 (as claimed): the codec an element has after its constructor is one
\* of the names of its live catalog whenever that catalog is not empty,
\* whatever MIME types the hardware offers.
C39_DefaultCodecIsListed ==
    (cat.built /\ codecs(cat) # <<>>) => Listed(cat, enc.codec)

====
